---- MODULE Spec2Model ----
(***************************************************************************)
(* risky-proxmox-agent: the launch and host-shutdown coordinators of       *)
(* src/src/server.rs, run by concurrent request handlers against one       *)
(* hypervisor.  Every lock section and every hypervisor call of a handler  *)
(* is one step; handlers interleave between steps, as tokio tasks do at    *)
(* their await points.                                                     *)
(***************************************************************************)
EXTENDS Naturals, Sequences, FiniteSets, Bags, TLC

\* ------------------------------------------------------------------ bounds

\* Number of request handlers that can be suspended at an await at one time.
MaxHandlers == 1

\* Attempts of the shutdown coordinator's drain loop in the general
\* specification (the code's loop makes ShutdownPollAttempts).
MaxPollAttempts == 2

\* ---------------------------------------------------------------- constants

None == "None"

\* enum LaunchAction
LaunchAction == {"Shutdown", "Hibernate", "Terminate", "Cancel"}

\* Option<LaunchAction>
OptAction == LaunchAction \cup {None}

\* enum VmStatus
VmStatus == {"Running", "Stopped", "Unknown"}

\* The kinds of ProxmoxError a hypervisor call can fail with.
ProxmoxError == {"Api", "MissingNode", "Reqwest", "Serde"}

\* Attempts of the shutdown coordinator's drain loop (for attempt in 1..=60).
ShutdownPollAttempts == 60

\* A tag is a sequence of characters.
EasyKillTag == <<"e", "a", "s", "y", "-", "k", "i", "l", "l">>

\* The inventory: the hypervisor's VM records in listing order.
Inventory ==
  << [vmid |-> 100, name |-> "easy",
      tags |-> << <<"E", "a", "s", "y", "-", "K", "I", "L", "L">> >>],
     [vmid |-> 200, name |-> "work",
      tags |-> << <<"t", "a", "g", "1">>,
                  <<"e", "a", "s", "y", "-", "k", "i", "l">> >>] >>

VmIds == {Inventory[i].vmid : i \in 1..Len(Inventory)}

\* ------------------------------------------------------------------ helpers

UpperCase == <<"A", "B", "C", "D", "E", "F", "G", "H", "I", "J", "K", "L", "M",
               "N", "O", "P", "Q", "R", "S", "T", "U", "V", "W", "X", "Y", "Z">>

LowerCase == <<"a", "b", "c", "d", "e", "f", "g", "h", "i", "j", "k", "l", "m",
               "n", "o", "p", "q", "r", "s", "t", "u", "v", "w", "x", "y", "z">>

\* u8::to_ascii_lowercase: only A-Z change.
to_ascii_lowercase(ch) ==
  IF \E i \in 1..26 : UpperCase[i] = ch
  THEN LowerCase[CHOOSE i \in 1..26 : UpperCase[i] = ch]
  ELSE ch

\* str::eq_ignore_ascii_case
eq_ignore_ascii_case(a, b) ==
  /\ Len(a) = Len(b)
  /\ \A i \in 1..Len(a) : to_ascii_lowercase(a[i]) = to_ascii_lowercase(b[i])

\* Option<VmInfo>: the empty sequence is None, a one-element sequence is Some.
NoVm == << >>

Some(x) == <<x>>

\* vms.into_iter().find(|vm| vm.status == VmStatus::Running): the first record of
\* the listing, in listing order, whose status is Running.
FindRunning(vms) ==
  LET hits == {i \in 1..Len(vms) : vms[i].status = "Running"}
  IN  IF hits = {} THEN NoVm
      ELSE Some(vms[CHOOSE i \in hits : \A j \in hits : i <= j])

\* A faulty easy-kill test: the tag compared byte for byte.
easy_kill_case_sensitive(running) ==
  \E i \in 1..Len(running.tags) : running.tags[i] = EasyKillTag

\* running.tags.iter().any(|tag| tag.eq_ignore_ascii_case("easy-kill"))
easy_kill(running) ==
  \E i \in 1..Len(running.tags) : eq_ignore_ascii_case(running.tags[i], EasyKillTag)

\* ---------------------------------------------------------------- responses

AllowedActions == <<"Shutdown", "Hibernate", "Terminate", "Cancel">>

\* RunningVmInfo::from(&VmInfo)
RunningVmInfo(vm) == [vmid |-> vm.vmid, name |-> vm.name]

LaunchResponse_started ==
  [status |-> "Started", message |-> "Launch sequence started.",
   running_vm |-> NoVm, allowed_actions |-> << >>]

LaunchResponse_updated ==
  [status |-> "Updated", message |-> "Launch updated to terminate current VM.",
   running_vm |-> NoVm, allowed_actions |-> << >>]

LaunchResponse_already_running ==
  [status |-> "AlreadyRunning", message |-> "Target VM is already running.",
   running_vm |-> NoVm, allowed_actions |-> << >>]

LaunchResponse_cancelled ==
  [status |-> "Cancelled", message |-> "Launch cancelled.",
   running_vm |-> NoVm, allowed_actions |-> << >>]

\* A faulty needs_action: the running VM left out, the actions in another
\* order.
LaunchResponse_needs_action_bare(vm) ==
  [status |-> "NeedsAction",
   message |-> "A VM is currently running; choose an action.",
   running_vm |-> NoVm,
   allowed_actions |-> <<"Cancel", "Shutdown", "Hibernate", "Terminate">>]

LaunchResponse_needs_action(vm) ==
  [status |-> "NeedsAction",
   message |-> "A VM is currently running; choose an action.",
   running_vm |-> Some(RunningVmInfo(vm)), allowed_actions |-> AllowedActions]

ShutdownResponse_started ==
  [status |-> "Started", message |-> "Host shutdown sequence started.",
   running_vm |-> NoVm, allowed_actions |-> << >>]

ShutdownResponse_cancelled ==
  [status |-> "Cancelled", message |-> "Host shutdown cancelled.",
   running_vm |-> NoVm, allowed_actions |-> << >>]

ShutdownResponse_needs_action(vm) ==
  [status |-> "NeedsAction",
   message |-> "A VM is currently running; choose an action before shutdown.",
   running_vm |-> Some(RunningVmInfo(vm)), allowed_actions |-> AllowedActions]

\* Errors of the coordinators: LaunchError / ShutdownError.  `detail` is a
\* sequence of strings: the ProxmoxError kind, or the ShutdownFailed message.
Err_InProgress == [kind |-> "InProgress", detail |-> << >>]

Err_Proxmox(e) == [kind |-> "Proxmox", detail |-> <<e>>]

\* format!("Timed out waiting for VM {} to stop", running.vmid)
Err_ShutdownFailed(vmid) ==
  [kind |-> "ShutdownFailed",
   detail |-> <<"Timed out waiting for VM ", ToString(vmid), " to stop">>]

\* StatusCode values used by the request surface.
OK == 200

CONFLICT == 409

BAD_GATEWAY == 502

\* fn map_proxmox_error: 502 with the error's text.
map_proxmox_error(e) == [http |-> BAD_GATEWAY, error |-> e]

\* A faulty map_launch_error: every error answered as a hypervisor failure.
map_launch_error_all_bad_gateway(err) == map_proxmox_error(err.detail)

\* fn map_launch_error
map_launch_error(err) ==
  IF err.kind = "InProgress"
  THEN [http |-> CONFLICT, error |-> <<"Launch already in progress">>]
  ELSE map_proxmox_error(err.detail)

\* A faulty map_shutdown_error: a failed drain answered as a conflict.
map_shutdown_error_failed_is_conflict(err) ==
  IF err.kind = "Proxmox"
  THEN map_proxmox_error(err.detail)
  ELSE [http |-> CONFLICT,
        error |-> IF err.kind = "InProgress"
                  THEN <<"Shutdown already in progress">> ELSE err.detail]

\* fn map_shutdown_error
map_shutdown_error(err) ==
  IF err.kind = "InProgress"
  THEN [http |-> CONFLICT, error |-> <<"Shutdown already in progress">>]
  ELSE IF err.kind = "Proxmox"
  THEN map_proxmox_error(err.detail)
  ELSE [http |-> BAD_GATEWAY, error |-> err.detail]

\* What a handler hands back to the HTTP layer: Ok(Json(response)) is 200 with
\* the response, Err is the mapped status with an ApiError body.
NoResult == [http |-> 0, ok |-> << >>, err |-> << >>, error |-> << >>]

HttpOk(response) ==
  [http |-> OK, ok |-> <<response>>, err |-> << >>, error |-> << >>]

LaunchHttpErr(err) ==
  [http |-> map_launch_error(err).http, ok |-> << >>, err |-> <<err>>,
   error |-> map_launch_error(err).error]

ShutdownHttpErr(err) ==
  [http |-> map_shutdown_error(err).http, ok |-> << >>, err |-> <<err>>,
   error |-> map_shutdown_error(err).error]

\* -------------------------------------------------------------------- state

VARIABLES
  status,          \* hypervisor: vmid -> Running or Stopped
  pending,         \* hypervisor: vmid -> a stop command is accepted, not completed
  launch_state,    \* LaunchManager.state: in_progress, requested_action
  shutdown_state,  \* ShutdownManager.state: in_progress
  tasks,           \* the bag of request handlers suspended at an await
  handlers,        \* how many handlers can be suspended at one time
  poll_attempts,   \* attempts of the shutdown drain loop
  last             \* what the last step did: where, call issued, value returned

vars == <<status, pending, launch_state, shutdown_state, tasks, handlers,
          poll_attempts, last>>

NoCall == [op |-> "none", vmid |-> 0]

Call(op, vmid) == [op |-> op, vmid |-> vmid]

\* The record of one step: the place in the code it ran (`at`), the hypervisor
\* call it issued, what it returned to the HTTP layer, whether it dispatched
\* the host power-off command.
Event(at, call, ret, poweroff) ==
  [at |-> at, call |-> call, ret |-> ret, poweroff |-> poweroff]

\* The mutating calls of the client.
Mutations == {"start_vm", "shutdown_vm", "hibernate_vm", "terminate_vm"}

\* The locals of a handler: of LaunchManager::launch and run_flow, or of
\* ShutdownManager::shutdown and run_flow.  `auto_selected` marks a launch
\* whose action was promoted to Terminate by the easy-kill rule; `owed` marks a
\* flow that was draining politely when a terminate escalation was accepted and
\* has not read requested_action since.
NewTask(pc, target_vmid, action) ==
  [pc |-> pc, target_vmid |-> target_vmid, action |-> action,
   running_vm |-> NoVm, current_action |-> None, outcome |-> << >>,
   attempt |-> 0, auto_selected |-> FALSE, owed |-> FALSE]

Live == BagToSet(tasks)

\* The handler t with only the last lock section of its function left: of its
\* locals only the outcome of run_flow is read from here on.
Finishing(t, pc, outcome) ==
  [NewTask(pc, 0, None) EXCEPT !.outcome = <<outcome>>,
                               !.auto_selected = t.auto_selected]

\* Task t becomes u / task t ends.
Becomes(t, u) == tasks' = (tasks (-) SetToBag({t})) (+) SetToBag({u})

Ends(t) == tasks' = tasks (-) SetToBag({t})

\* ProxmoxClient::list_vms as the hypervisor answers it now.
list_vms ==
  [i \in 1..Len(Inventory) |->
     [vmid |-> Inventory[i].vmid, name |-> Inventory[i].name,
      tags |-> Inventory[i].tags, status |-> status[Inventory[i].vmid]]]

RunningVms == {v \in VmIds : status[v] = "Running"}

\* LaunchState::default() / ShutdownState::default()
LaunchState_default == [in_progress |-> FALSE, requested_action |-> None]

ShutdownState_default == [in_progress |-> FALSE]

\* The state after AppState::new, before any request, with room for `n`
\* suspended handlers; the inventory has at most one Running VM.
InitWith(n) ==
  /\ handlers = n
  /\ status \in {s \in [VmIds -> {"Running", "Stopped"}] :
                   Cardinality({v \in VmIds : s[v] = "Running"}) <= 1}
  /\ pending = [v \in VmIds |-> FALSE]
  /\ launch_state = LaunchState_default
  /\ shutdown_state = ShutdownState_default
  /\ tasks = EmptyBag
  /\ poll_attempts = IF MaxPollAttempts < ShutdownPollAttempts
                     THEN MaxPollAttempts ELSE ShutdownPollAttempts
  /\ last = Event("init", NoCall, NoResult, FALSE)

Init == InitWith(MaxHandlers)

\* One more handler: room for two requests to race with each other.
RaceInit == InitWith(MaxHandlers + 1)

\* --------------------------------------------------------------- hypervisor

\* The hypervisor accepted POST .../status/start for vmid.
StartAccepted(vmid) ==
  /\ status' = [status EXCEPT ![vmid] = "Running"]
  /\ pending' = [pending EXCEPT ![vmid] = FALSE]

\* The hypervisor accepted POST .../status/{shutdown,hibernate,stop} for vmid:
\* a VM that is not stopped starts to stop; it reaches Stopped in Quiesce.
StopAccepted(vmid) ==
  /\ pending' = [pending EXCEPT ![vmid] = status[vmid] # "Stopped"]
  /\ UNCHANGED status

\* A VM that was told to stop reaches Stopped.
Quiesce ==
  /\ \E vmid \in VmIds :
       /\ pending[vmid]
       /\ status' = [status EXCEPT ![vmid] = "Stopped"]
       /\ pending' = [pending EXCEPT ![vmid] = FALSE]
  /\ last' = Event("quiesce", NoCall, NoResult, FALSE)
  /\ UNCHANGED <<launch_state, shutdown_state, tasks, handlers, poll_attempts>>

\* ProxmoxClient::vm_status: what a status read of vmid can answer now.  A VM
\* on its way down may report a status that normalizes to neither Running nor
\* Stopped.
vm_status(vmid) ==
  IF pending[vmid] THEN {status[vmid], "Unknown"} ELSE {status[vmid]}

\* The errors the hypervisor's calls fail with in the coordinator
\* specifications: a non-2xx answer.
ListErrors == {"Api"}

VmErrors == {"Api"}

\* execute_action's match: the client call an action stands for.
ActionCall(action) ==
  CASE action = "Shutdown" -> "shutdown_vm"
    [] action = "Hibernate" -> "hibernate_vm"
    [] action = "Terminate" -> "terminate_vm"
    [] OTHER -> "none"

OkOutcome == [kind |-> "Ok", detail |-> << >>]

\* LaunchManager::execute_action / ShutdownManager::execute_action of task t at
\* `at`: `next` is the task after Ok(()), `failed` the place the task is at
\* after an error; Cancel sends nothing.
\* A faulty execute_action: the error of the call is dropped and the flow
\* goes on.
execute_action_drops_error(at, t, vmid, action, next, failed) ==
  /\ last' = Event(at, IF ActionCall(action) = "none" THEN NoCall
                       ELSE Call(ActionCall(action), vmid), NoResult, FALSE)
  /\ Becomes(t, next)
  /\ \/ ActionCall(action) # "none" /\ StopAccepted(vmid)
     \/ UNCHANGED <<status, pending>>

execute_action(at, t, vmid, action, next, failed) ==
  IF ActionCall(action) = "none"
  THEN /\ Becomes(t, next)
       /\ last' = Event(at, NoCall, NoResult, FALSE)
       /\ UNCHANGED <<status, pending>>
  ELSE /\ last' = Event(at, Call(ActionCall(action), vmid), NoResult, FALSE)
       /\ \/ /\ StopAccepted(vmid)
             /\ Becomes(t, next)
          \/ /\ \E e \in VmErrors :
                  Becomes(t, Finishing(t, failed, Err_Proxmox(e)))
             /\ UNCHANGED <<status, pending>>

\* ------------------------------------------------------- launch coordinator

\* A request that has to wait at an await needs a free handler.
MaySuspend == BagCardinality(tasks) < handlers

\* Launch flows that have sent their first action to the displaced VM, wait
\* for it to stop, and have not sent terminate_vm.
PolitelyDraining(t) ==
  /\ t.pc \in {"l_poll", "l_reread"}
  /\ t.current_action # "Terminate"

\* The tasks with every politely draining flow marked as owed an escalation.
MarkOwed(B) ==
  LET mark(t) == IF PolitelyDraining(t) THEN [t EXCEPT !.owed = TRUE] ELSE t
      img == {mark(t) : t \in BagToSet(B)}
      sum(u) == LET pre == {t \in BagToSet(B) : mark(t) = u}
                    a == IF u \in pre THEN B[u] ELSE 0
                    b == IF /\ PolitelyDraining(u)
                            /\ [u EXCEPT !.owed = FALSE] \in pre \ {u}
                         THEN B[[u EXCEPT !.owed = FALSE]] ELSE 0
                IN  a + b
  IN  [u \in img |-> sum(u)]

\* A faulty first lock section: a Cancel request that finds a flow in progress
\* clears the state and is answered Cancelled.
launch_admit_cancel_aborts(state, action) ==
  IF state.in_progress
  THEN IF action = "Terminate"
       THEN [state |-> [state EXCEPT !.requested_action = "Terminate"],
             ret |-> HttpOk(LaunchResponse_updated)]
       ELSE IF action = "Cancel"
       THEN [state |-> [in_progress |-> FALSE, requested_action |-> None],
             ret |-> HttpOk(LaunchResponse_cancelled)]
       ELSE [state |-> state, ret |-> LaunchHttpErr(Err_InProgress)]
  ELSE [state |-> state, ret |-> NoResult]

\* A faulty first lock section: a Terminate request queues its escalation
\* whether or not a flow is in progress.
launch_admit_queues_when_idle(state, action) ==
  IF action = "Terminate"
  THEN [state |-> [state EXCEPT !.requested_action = "Terminate"],
        ret |-> IF state.in_progress THEN HttpOk(LaunchResponse_updated)
                ELSE NoResult]
  ELSE [state |-> state,
        ret |-> IF state.in_progress THEN LaunchHttpErr(Err_InProgress)
                ELSE NoResult]

\* A faulty first lock section: every request that finds a flow in progress is
\* rejected, Terminate too.
launch_admit_rejects_terminate(state, action) ==
  IF state.in_progress
  THEN [state |-> state, ret |-> LaunchHttpErr(Err_InProgress)]
  ELSE [state |-> state, ret |-> NoResult]

\* LaunchManager::launch, what the first lock section does with the state and
\* what it returns: a request that finds a flow in progress queues a terminate
\* escalation or is rejected; one that finds none returns nothing yet.
launch_admit(state, action) ==
  IF state.in_progress
  THEN IF action = "Terminate"
       THEN [state |-> [state EXCEPT !.requested_action = "Terminate"],
             ret |-> HttpOk(LaunchResponse_updated)]
       ELSE [state |-> state, ret |-> LaunchHttpErr(Err_InProgress)]
  ELSE [state |-> state, ret |-> NoResult]

\* A faulty entry: an escalation request hands its target to the flow in
\* progress.
launch_entry_retargets(target_vmid, action) ==
  /\ launch_state' = launch_admit(launch_state, action).state
  /\ last' = Event("l_entry", NoCall, launch_admit(launch_state, action).ret, FALSE)
  /\ IF launch_state.in_progress
     THEN tasks' = IF action = "Terminate"
                   THEN SetToBag({[t EXCEPT !.target_vmid = target_vmid] :
                                    t \in BagToSet(tasks)})
                   ELSE tasks
     ELSE /\ MaySuspend
          /\ tasks' = tasks (+)
                         SetToBag({NewTask("l_list", target_vmid, action)})
  /\ UNCHANGED <<status, pending, shutdown_state, handlers, poll_attempts>>

\* LaunchManager::launch, first lock section: the request returns at once, or
\* goes on to read the inventory.
launch_entry(target_vmid, action) ==
  /\ launch_state' = launch_admit(launch_state, action).state
  /\ last' = Event("l_entry", NoCall, launch_admit(launch_state, action).ret, FALSE)
  /\ IF launch_state.in_progress
     THEN tasks' = IF action = "Terminate" THEN MarkOwed(tasks) ELSE tasks
     ELSE /\ MaySuspend
          /\ tasks' = tasks (+)
                         SetToBag({NewTask("l_list", target_vmid, action)})
  /\ UNCHANGED <<status, pending, shutdown_state, handlers, poll_attempts>>

\* Faulty rules: Cancel is honoured only when a VM is running.
launch_decision_cancel_needs_running(target_vmid, action, running_vm) ==
  IF running_vm # NoVm
  THEN LET running == running_vm[1]
           promoted == IF action = None /\ easy_kill(running)
                       THEN "Terminate" ELSE action
       IN  IF running.vmid = target_vmid
           THEN [ret |-> <<LaunchResponse_already_running>>, action |-> action]
           ELSE IF promoted = None
           THEN [ret |-> <<LaunchResponse_needs_action(running)>>,
                 action |-> promoted]
           ELSE IF promoted = "Cancel"
           THEN [ret |-> <<LaunchResponse_cancelled>>, action |-> promoted]
           ELSE [ret |-> << >>, action |-> promoted]
  ELSE [ret |-> << >>, action |-> action]

\* Faulty rules: with no VM running, a request that names an action is
\* answered as if the action were Cancel.
launch_decision_idle_action_cancels(target_vmid, action, running_vm) ==
  IF running_vm # NoVm
  THEN launch_decision_cancel_needs_running(target_vmid, action, running_vm)
  ELSE IF action # None
       THEN [ret |-> <<LaunchResponse_cancelled>>, action |-> action]
       ELSE [ret |-> << >>, action |-> action]

\* Faulty rules: the action is looked at before the running VM is compared
\* with the target.
launch_decision_action_first(target_vmid, action, running_vm) ==
  IF action = "Cancel"
  THEN [ret |-> <<LaunchResponse_cancelled>>, action |-> action]
  ELSE IF running_vm = NoVm
  THEN [ret |-> << >>, action |-> action]
  ELSE LET running == running_vm[1]
           promoted == IF action = None /\ easy_kill(running)
                       THEN "Terminate" ELSE action
       IN  IF promoted = None
           THEN [ret |-> <<LaunchResponse_needs_action(running)>>,
                 action |-> promoted]
           ELSE IF running.vmid = target_vmid
           THEN [ret |-> <<LaunchResponse_already_running>>, action |-> action]
           ELSE [ret |-> << >>, action |-> promoted]

\* LaunchManager::launch, the rules applied to the listing.  `ret` is the
\* response of an early return (or empty), `action` the action to commit with.
launch_decision(target_vmid, action, running_vm) ==
  IF running_vm # NoVm
  THEN LET running == running_vm[1]
           promoted == IF action = None /\ easy_kill(running)
                       THEN "Terminate" ELSE action
       IN  IF running.vmid = target_vmid
           THEN [ret |-> <<LaunchResponse_already_running>>, action |-> action]
           ELSE IF promoted = None
           THEN [ret |-> <<LaunchResponse_needs_action(running)>>,
                 action |-> promoted]
           ELSE IF promoted = "Cancel"
           THEN [ret |-> <<LaunchResponse_cancelled>>, action |-> promoted]
           ELSE [ret |-> << >>, action |-> promoted]
  ELSE IF action = "Cancel"
       THEN [ret |-> <<LaunchResponse_cancelled>>, action |-> action]
       ELSE [ret |-> << >>, action |-> action]

\* A faulty launch that marks the coordinator busy before the listing and
\* leaves it so when the listing fails.
launch_list_marks_first(t) ==
  /\ t.pc = "l_list"
  /\ \/ \E e \in ListErrors :
          /\ Ends(t)
          /\ launch_state' =
               [in_progress |-> TRUE, requested_action |-> t.action]
          /\ last' = Event("l_list", Call("list_vms", 0),
                           LaunchHttpErr(Err_Proxmox(e)), FALSE)
     \/ /\ LET running_vm == FindRunning(list_vms)
               d == launch_decision(t.target_vmid, t.action, running_vm)
           IN  IF d.ret # << >>
               THEN /\ Ends(t)
                    /\ last' = Event("l_list", Call("list_vms", 0),
                                     HttpOk(d.ret[1]), FALSE)
               ELSE /\ Becomes(t, [t EXCEPT !.pc = "l_commit",
                                            !.running_vm = running_vm,
                                            !.action = d.action,
                                            !.auto_selected =
                                               d.action # t.action])
                    /\ last' = Event("l_list", Call("list_vms", 0), NoResult,
                                     FALSE)
        /\ UNCHANGED launch_state
  /\ UNCHANGED <<status, pending, shutdown_state, handlers, poll_attempts>>

\* LaunchManager::launch: list_vms, find the running VM, decide.
launch_list(t) ==
  /\ t.pc = "l_list"
  /\ \/ \E e \in ListErrors :
          /\ Ends(t)
          /\ last' = Event("l_list", Call("list_vms", 0),
                           LaunchHttpErr(Err_Proxmox(e)), FALSE)
     \/ LET running_vm == FindRunning(list_vms)
            d == launch_decision(t.target_vmid, t.action, running_vm)
        IN  IF d.ret # << >>
            THEN /\ Ends(t)
                 /\ last' = Event("l_list", Call("list_vms", 0),
                                  HttpOk(d.ret[1]), FALSE)
            ELSE /\ Becomes(t, [t EXCEPT !.pc = "l_commit",
                                         !.running_vm = running_vm,
                                         !.action = d.action,
                                         !.auto_selected = d.action # t.action])
                 /\ last' = Event("l_list", Call("list_vms", 0), NoResult,
                                  FALSE)
  /\ UNCHANGED <<status, pending, launch_state, shutdown_state, handlers,
                 poll_attempts>>

\* LaunchManager::launch, second lock section, and the entry of run_flow up to
\* its first await: with a running VM the first action is next, else start_vm.
launch_commit(t) ==
  /\ t.pc = "l_commit"
  /\ launch_state' = [in_progress |-> TRUE, requested_action |-> t.action]
  /\ Becomes(t, IF t.running_vm # NoVm
                THEN [t EXCEPT !.pc = "l_act",
                               !.current_action =
                                  IF t.action = None THEN "Terminate"
                                  ELSE t.action]
                ELSE [t EXCEPT !.pc = "l_start"])
  /\ last' = Event("l_commit", NoCall, NoResult, FALSE)
  /\ UNCHANGED <<status, pending, shutdown_state, handlers, poll_attempts>>

\* run_flow: the first action on the displaced VM.
launch_act(t) ==
  /\ t.pc = "l_act"
  /\ execute_action("l_act", t, t.running_vm[1].vmid, t.current_action,
                    [t EXCEPT !.pc = "l_poll"], "l_reset")
  /\ UNCHANGED <<launch_state, shutdown_state, handlers, poll_attempts>>

\* A faulty exit test: no status ends the wait.
launch_drained_never(st) == FALSE

\* A faulty exit test: any status but Running ends the wait.
launch_drained_unless_running(st) == st # "Running"

\* run_flow, the loop's exit test on a status read: only Stopped ends the wait.
launch_drained(st) == st = "Stopped"

\* run_flow: one status read of the drain loop.
launch_poll(t) ==
  /\ t.pc = "l_poll"
  /\ last' = Event("l_poll", Call("vm_status", t.running_vm[1].vmid), NoResult,
                   FALSE)
  /\ \/ \E e \in VmErrors :
          Becomes(t, Finishing(t, "l_reset", Err_Proxmox(e)))
     \/ \E st \in vm_status(t.running_vm[1].vmid) :
          Becomes(t, IF launch_drained(st)
                     THEN [t EXCEPT !.pc = "l_start", !.owed = FALSE]
                     ELSE [t EXCEPT !.pc = "l_reread"])
  /\ UNCHANGED <<status, pending, launch_state, shutdown_state, handlers,
                 poll_attempts>>

\* A faulty escalation test: the flow's current action is not looked at.
launch_escalates_again(requested_action, current_action) ==
  requested_action = "Terminate"

\* run_flow, the escalation test on the requested_action just read.
launch_escalates(requested_action, current_action) ==
  requested_action = "Terminate" /\ current_action # "Terminate"

\* run_flow: requested_action read under the lock.  An escalation means
\* terminate_vm is next; anything else, the 2 s sleep and the next status read.
launch_reread(t) ==
  /\ t.pc = "l_reread"
  /\ Becomes(t, IF launch_escalates(launch_state.requested_action,
                                    t.current_action)
                THEN [t EXCEPT !.pc = "l_escalate", !.owed = FALSE]
                ELSE [t EXCEPT !.pc = "l_poll", !.owed = FALSE])
  /\ last' = Event("l_reread", NoCall, NoResult, FALSE)
  /\ UNCHANGED <<status, pending, launch_state, shutdown_state, handlers,
                 poll_attempts>>

\* run_flow: the escalation, terminate_vm on the displaced VM, then the sleep.
launch_escalate(t) ==
  /\ t.pc = "l_escalate"
  /\ execute_action("l_escalate", t, t.running_vm[1].vmid, "Terminate",
                    [t EXCEPT !.pc = "l_poll", !.current_action = "Terminate"],
                    "l_reset")
  /\ UNCHANGED <<launch_state, shutdown_state, handlers, poll_attempts>>

\* run_flow: start_vm(target_vmid).
launch_start(t) ==
  /\ t.pc = "l_start"
  /\ last' = Event("l_start", Call("start_vm", t.target_vmid), NoResult, FALSE)
  /\ \/ /\ StartAccepted(t.target_vmid)
        /\ Becomes(t, Finishing(t, "l_reset", OkOutcome))
     \/ /\ \E e \in VmErrors :
             Becomes(t, Finishing(t, "l_reset", Err_Proxmox(e)))
        /\ UNCHANGED <<status, pending>>
  /\ UNCHANGED <<launch_state, shutdown_state, handlers, poll_attempts>>

\* A faulty third lock section: requested_action is left as it is.
launch_release_keeps_request(state) == [state EXCEPT !.in_progress = FALSE]

\* LaunchManager::launch, what the third lock section writes.
launch_release(state) ==
  [state EXCEPT !.in_progress = FALSE, !.requested_action = None]

\* LaunchManager::launch, third lock section, held until the function returns:
\* both fields are cleared, then the flow's outcome decides the return value.
launch_reset(t) ==
  /\ t.pc = "l_reset"
  /\ launch_state' = launch_release(launch_state)
  /\ Ends(t)
  /\ last' = Event("l_reset", NoCall,
                   IF t.outcome[1].kind = "Ok"
                   THEN HttpOk(LaunchResponse_started)
                   ELSE LaunchHttpErr(t.outcome[1]),
                   FALSE)
  /\ UNCHANGED <<status, pending, shutdown_state, handlers, poll_attempts>>

LaunchNext ==
  \/ \E target_vmid \in VmIds, action \in OptAction :
       launch_entry(target_vmid, action)
  \/ \E t \in Live :
       \/ launch_list(t)
       \/ launch_commit(t)
       \/ launch_act(t)
       \/ launch_poll(t)
       \/ launch_reread(t)
       \/ launch_escalate(t)
       \/ launch_start(t)
       \/ launch_reset(t)

\* ----------------------------------------------- host-shutdown coordinator

\* A faulty first section: a host shutdown is refused while a launch flow is
\* in progress.
shutdown_admit_yields_to_launch(state, action) ==
  IF state.in_progress \/ launch_state.in_progress
  THEN ShutdownHttpErr(Err_InProgress) ELSE NoResult

\* ShutdownManager::shutdown, what the first lock section returns: a request
\* that finds a flow in progress is rejected.
shutdown_admit(state, action) ==
  IF state.in_progress THEN ShutdownHttpErr(Err_InProgress) ELSE NoResult

\* ShutdownManager::shutdown, first lock section: the request returns at once,
\* or goes on to read the inventory.
shutdown_entry(action) ==
  /\ last' = Event("s_entry", NoCall, shutdown_admit(shutdown_state, action),
                   FALSE)
  /\ IF shutdown_state.in_progress
     THEN UNCHANGED tasks
     ELSE /\ MaySuspend
          /\ tasks' = tasks (+) SetToBag({NewTask("s_list", 0, action)})
  /\ UNCHANGED <<status, pending, launch_state, shutdown_state, handlers,
                 poll_attempts>>

\* Faulty rules: Cancel is honoured only when a VM is running.
shutdown_decision_cancel_needs_running(action, running_vm) ==
  IF running_vm # NoVm
  THEN IF action = None
       THEN <<ShutdownResponse_needs_action(running_vm[1])>>
       ELSE IF action = "Cancel" THEN <<ShutdownResponse_cancelled>>
       ELSE << >>
  ELSE << >>

\* Faulty rules: a request without an action is let through with a VM
\* running, counting on the default of run_flow.
shutdown_decision_defaults(action, running_vm) ==
  IF action = "Cancel" THEN <<ShutdownResponse_cancelled>> ELSE << >>

\* ShutdownManager::shutdown, the rules applied to the listing: the response
\* of an early return, or empty.
shutdown_decision(action, running_vm) ==
  IF running_vm # NoVm
  THEN IF action = None
       THEN <<ShutdownResponse_needs_action(running_vm[1])>>
       ELSE IF action = "Cancel" THEN <<ShutdownResponse_cancelled>>
       ELSE << >>
  ELSE IF action = "Cancel" THEN <<ShutdownResponse_cancelled>>
       ELSE << >>

\* ShutdownManager::shutdown: list_vms, find the running VM, decide.
shutdown_list(t) ==
  /\ t.pc = "s_list"
  /\ \/ \E e \in ListErrors :
          /\ Ends(t)
          /\ last' = Event("s_list", Call("list_vms", 0),
                           ShutdownHttpErr(Err_Proxmox(e)), FALSE)
     \/ LET running_vm == FindRunning(list_vms)
            ret == shutdown_decision(t.action, running_vm)
        IN  IF ret # << >>
            THEN /\ Ends(t)
                 /\ last' = Event("s_list", Call("list_vms", 0),
                                  HttpOk(ret[1]), FALSE)
            ELSE /\ Becomes(t, [t EXCEPT !.pc = "s_commit",
                                         !.running_vm = running_vm])
                 /\ last' = Event("s_list", Call("list_vms", 0), NoResult,
                                  FALSE)
  /\ UNCHANGED <<status, pending, launch_state, shutdown_state, handlers,
                 poll_attempts>>

\* ShutdownManager::shutdown, second lock section, and run_flow up to its
\* first await: with a running VM the selected action is next; with none the
\* power-off command is dispatched at once and run_flow is Ok.
shutdown_commit(t) ==
  /\ t.pc = "s_commit"
  /\ shutdown_state' = [in_progress |-> TRUE]
  /\ IF t.running_vm # NoVm
     THEN /\ Becomes(t, [t EXCEPT !.pc = "s_act",
                                  !.current_action =
                                     IF t.action = None THEN "Terminate"
                                     ELSE t.action])
          /\ last' = Event("s_commit", NoCall, NoResult, FALSE)
     ELSE /\ Becomes(t, Finishing(t, "s_reset", OkOutcome))
          /\ last' = Event("s_commit", NoCall, NoResult, TRUE)
  /\ UNCHANGED <<status, pending, launch_state, handlers, poll_attempts>>

\* run_flow: the selected action on the running VM.
shutdown_act(t) ==
  /\ t.pc = "s_act"
  /\ execute_action("s_act", t, t.running_vm[1].vmid, t.current_action,
                    [t EXCEPT !.pc = "s_poll", !.attempt = 1],
                    "s_reset")
  /\ UNCHANGED <<launch_state, shutdown_state, handlers, poll_attempts>>

\* run_flow: one attempt of the drain loop.  Stopped breaks out of the loop;
\* anything else sleeps 2 s, and the last attempt falls out of the loop.
shutdown_poll(t) ==
  /\ t.pc = "s_poll"
  /\ last' = Event("s_poll", Call("vm_status", t.running_vm[1].vmid), NoResult,
                   FALSE)
  /\ \/ \E e \in VmErrors :
          Becomes(t, Finishing(t, "s_reset", Err_Proxmox(e)))
     \/ \E st \in vm_status(t.running_vm[1].vmid) :
          Becomes(t, IF st = "Stopped" \/ t.attempt >= poll_attempts
                     THEN [t EXCEPT !.pc = "s_final", !.attempt = 0]
                     ELSE [t EXCEPT !.attempt = @ + 1])
  /\ UNCHANGED <<status, pending, launch_state, shutdown_state, handlers,
                 poll_attempts>>

\* A faulty final test: the final read is not looked at.
shutdown_timed_out_never(st) == FALSE

\* A faulty final test: only a VM reported Running counts as not stopped.
shutdown_timed_out_if_running(st) == st = "Running"

\* run_flow, the test on the status read after the loop.
shutdown_timed_out(st) == st # "Stopped"

\* run_flow: the status read after the loop.  Stopped dispatches the power-off
\* command; anything else is the timeout error.
shutdown_final(t) ==
  /\ t.pc = "s_final"
  /\ \/ /\ \E e \in VmErrors :
             Becomes(t, Finishing(t, "s_reset", Err_Proxmox(e)))
        /\ last' = Event("s_final", Call("vm_status", t.running_vm[1].vmid),
                         NoResult, FALSE)
     \/ \E st \in vm_status(t.running_vm[1].vmid) :
          IF shutdown_timed_out(st)
          THEN /\ Becomes(t, Finishing(t, "s_reset",
                            Err_ShutdownFailed(t.running_vm[1].vmid)))
               /\ last' = Event("s_final",
                                Call("vm_status", t.running_vm[1].vmid),
                                NoResult, FALSE)
          ELSE /\ Becomes(t, Finishing(t, "s_reset", OkOutcome))
               /\ last' = Event("s_final",
                                Call("vm_status", t.running_vm[1].vmid),
                                NoResult, TRUE)
  /\ UNCHANGED <<status, pending, launch_state, shutdown_state, handlers,
                 poll_attempts>>

\* A faulty third lock section: in_progress is left as it is.
shutdown_release_keeps_flag(state) == state

\* ShutdownManager::shutdown, what the third lock section writes.
shutdown_release(state) == [state EXCEPT !.in_progress = FALSE]

\* ShutdownManager::shutdown, third lock section, held until the function
\* returns: in_progress is cleared, then the flow's outcome decides the return.
shutdown_reset(t) ==
  /\ t.pc = "s_reset"
  /\ shutdown_state' = shutdown_release(shutdown_state)
  /\ Ends(t)
  /\ last' = Event("s_reset", NoCall,
                   IF t.outcome[1].kind = "Ok"
                   THEN HttpOk(ShutdownResponse_started)
                   ELSE ShutdownHttpErr(t.outcome[1]),
                   FALSE)
  /\ UNCHANGED <<status, pending, launch_state, handlers, poll_attempts>>

ShutdownNext ==
  \/ \E action \in OptAction : shutdown_entry(action)
  \/ \E t \in Live :
       \/ shutdown_list(t)
       \/ shutdown_commit(t)
       \/ shutdown_act(t)
       \/ shutdown_poll(t)
       \/ shutdown_final(t)
       \/ shutdown_reset(t)

Next == LaunchNext \/ ShutdownNext \/ Quiesce

Spec == Init /\ [][Next]_vars

\* The same program with room for two requests to race.
RaceSpec == RaceInit /\ [][Next]_vars

\* ---------------------------------------------- the two coordinators at once

\* AppState::new: one LaunchManager and one ShutdownManager, and room for a
\* request to each.
PairInit == InitWith(2)

\* A launch and a host shutdown in flight together.
PairSpec == PairInit /\ [][Next]_vars

\* ------------------------------------------- the launch flow, fairly run

\* A step of a launch handler past its entry: a hypervisor call answers, the
\* timer fires, the mutex is granted.
LaunchProgress ==
  \E t \in Live :
    \/ launch_list(t)
    \/ launch_commit(t)
    \/ launch_act(t)
    \/ launch_poll(t)
    \/ launch_reread(t)
    \/ launch_escalate(t)
    \/ launch_start(t)
    \/ launch_reset(t)

\* The launch coordinator alone, one request at a time.
LaunchLiveInit == InitWith(1)

LaunchLiveNext == LaunchNext \/ Quiesce

\* Fair scheduling: tokio polls a handler that can go on, every call of the
\* client answers or fails, the timer fires; and a VM that was told to stop
\* does stop (no other flow is there to start it again).
LaunchLiveSpec ==
  /\ LaunchLiveInit
  /\ [][LaunchLiveNext]_vars
  /\ WF_vars(LaunchProgress)
  /\ WF_vars(Quiesce)

\* --------------------------------------- the drain loop at its full length

\* The shutdown coordinator alone, one request at a time, its drain loop with
\* all the attempts of the code.
DrainInit ==
  /\ handlers = 1
  /\ status \in {s \in [VmIds -> {"Running", "Stopped"}] :
                   Cardinality({v \in VmIds : s[v] = "Running"}) <= 1}
  /\ pending = [v \in VmIds |-> FALSE]
  /\ launch_state = LaunchState_default
  /\ shutdown_state = ShutdownState_default
  /\ tasks = EmptyBag
  /\ poll_attempts = ShutdownPollAttempts
  /\ last = Event("init", NoCall, NoResult, FALSE)

\* A step of a shutdown handler past its entry: a hypervisor call answers,
\* the timer fires, the mutex is granted.
ShutdownProgress ==
  \E t \in Live :
    \/ shutdown_list(t)
    \/ shutdown_commit(t)
    \/ shutdown_act(t)
    \/ shutdown_poll(t)
    \/ shutdown_final(t)
    \/ shutdown_reset(t)

DrainNext == ShutdownNext \/ Quiesce

\* Every call of the client answers or fails (reqwest gives up on a dead
\* connection), the timer fires, and tokio polls a task that can go on.
DrainSpec == DrainInit /\ [][DrainNext]_vars /\ WF_vars(ShutdownProgress)

\* -------------------------------------------------------- fallback watchdog

\* The names the watchdog can be configured with (PVE_FALLBACK_VM): the name
\* of a VM of the inventory, the same in another case, a name of no VM.
FallbackNames == {"work", "Work", "absent"}

\* The watchdog task of spawn_fallback_task, between two polls.
FallbackTask(fallback_name) ==
  [pc |-> "f_idle", fallback_name |-> fallback_name, vmid |-> 0]

\* The state after main spawned the watchdog, no request in flight, the VMs
\* in any state.
FallbackInit ==
  /\ handlers = 0
  /\ status \in [VmIds -> {"Running", "Stopped"}]
  /\ pending = [v \in VmIds |-> FALSE]
  /\ launch_state = LaunchState_default
  /\ shutdown_state = ShutdownState_default
  /\ tasks \in {SetToBag({FallbackTask(n)}) : n \in FallbackNames}
  /\ poll_attempts = IF MaxPollAttempts < ShutdownPollAttempts
                     THEN MaxPollAttempts ELSE ShutdownPollAttempts
  /\ last = Event("init", NoCall, NoResult, FALSE)

\* What else acts on the hypervisor while the watchdog waits: a launch or
\* shutdown flow, an operator.  Any VM is started or told to stop.
Drift ==
  /\ \E vmid \in VmIds : StartAccepted(vmid) \/ StopAccepted(vmid)
  /\ last' = Event("drift", NoCall, NoResult, FALSE)
  /\ UNCHANGED <<launch_state, shutdown_state, tasks, handlers, poll_attempts>>

\* vms.iter().any(|vm| vm.status == VmStatus::Running)
any_running(vms) == \E i \in 1..Len(vms) : vms[i].status = "Running"

\* vms.iter().find(|vm| vm.name == fallback_name): the first record with
\* exactly that name, as an Option.
find_by_name(vms, fallback_name) ==
  LET hits == {i \in 1..Len(vms) : vms[i].name = fallback_name}
  IN  IF hits = {} THEN NoVm
      ELSE Some(vms[CHOOSE i \in hits : \A j \in hits : i <= j])

\* A faulty second probe: the listing is not looked at for a running VM.
fallback_recheck_skips_running(vms, fallback_name) ==
  find_by_name(vms, fallback_name)

\* poll_and_start, what the second listing decides: the VM to start, if any.
fallback_recheck(vms, fallback_name) ==
  IF any_running(vms) THEN NoVm ELSE find_by_name(vms, fallback_name)

\* spawn_fallback_task: ticker.tick() fires and poll_and_start is entered.
fallback_tick(t) ==
  /\ t.pc = "f_idle"
  /\ Becomes(t, [t EXCEPT !.pc = "f_list1"])
  /\ last' = Event("f_idle", NoCall, NoResult, FALSE)
  /\ UNCHANGED <<status, pending, launch_state, shutdown_state, handlers,
                 poll_attempts>>

\* poll_and_start: the first listing.  An error or a running VM ends the
\* poll; otherwise the 10 s recheck delay follows.
fallback_first(t) ==
  /\ t.pc = "f_list1"
  /\ last' = Event("f_list1", Call("list_vms", 0), NoResult, FALSE)
  /\ \/ \E e \in ListErrors : Becomes(t, [t EXCEPT !.pc = "f_idle"])
     \/ Becomes(t, IF any_running(list_vms)
                   THEN [t EXCEPT !.pc = "f_idle"]
                   ELSE [t EXCEPT !.pc = "f_recheck"])
  /\ UNCHANGED <<status, pending, launch_state, shutdown_state, handlers,
                 poll_attempts>>

\* poll_and_start: the second listing, after the delay.  An error, a running
\* VM or no VM of the configured name ends the poll.
fallback_second(t) ==
  /\ t.pc = "f_recheck"
  /\ last' = Event("f_recheck", Call("list_vms", 0), NoResult, FALSE)
  /\ \/ \E e \in ListErrors : Becomes(t, [t EXCEPT !.pc = "f_idle"])
     \/ LET fallback_vm == fallback_recheck(list_vms, t.fallback_name)
        IN  Becomes(t, IF fallback_vm # NoVm
                       THEN [t EXCEPT !.pc = "f_start",
                                      !.vmid = fallback_vm[1].vmid]
                       ELSE [t EXCEPT !.pc = "f_idle"])
  /\ UNCHANGED <<status, pending, launch_state, shutdown_state, handlers,
                 poll_attempts>>

\* A faulty watchdog that goes through the launch coordinator: it waits for
\* the coordinator to be idle and holds it while it starts the VM.
fallback_start_through_coordinator(t) ==
  /\ t.pc = "f_start"
  /\ ~launch_state.in_progress
  /\ launch_state' = [launch_state EXCEPT !.in_progress = TRUE]
  /\ last' = Event("f_start", Call("start_vm", t.vmid), NoResult, FALSE)
  /\ Becomes(t, [t EXCEPT !.pc = "f_idle", !.vmid = 0])
  /\ StartAccepted(t.vmid)
  /\ UNCHANGED <<shutdown_state, handlers, poll_attempts>>

\* poll_and_start: start_vm on the fallback VM; the poll ends either way.
fallback_start(t) ==
  /\ t.pc = "f_start"
  /\ last' = Event("f_start", Call("start_vm", t.vmid), NoResult, FALSE)
  /\ Becomes(t, [t EXCEPT !.pc = "f_idle", !.vmid = 0])
  /\ \/ StartAccepted(t.vmid)
     \/ /\ \E e \in VmErrors : TRUE
        /\ UNCHANGED <<status, pending>>
  /\ UNCHANGED <<launch_state, shutdown_state, handlers, poll_attempts>>

FallbackNext ==
  \/ \E t \in Live :
       \/ fallback_tick(t)
       \/ fallback_first(t)
       \/ fallback_second(t)
       \/ fallback_start(t)
  \/ Drift
  \/ Quiesce

\* The watchdog against a hypervisor that others act on.
FallbackSpec == FallbackInit /\ [][FallbackNext]_vars

\* A step of the watchdog task.
FallbackStep ==
  \E t \in Live :
    \/ fallback_tick(t)
    \/ fallback_first(t)
    \/ fallback_second(t)
    \/ fallback_start(t)

\* The state after main spawned the watchdog and built the router: the
\* watchdog task, and room for one launch request at a time.
WatchInit ==
  /\ handlers = 2
  /\ status \in {s \in [VmIds -> {"Running", "Stopped"}] :
                   Cardinality({v \in VmIds : s[v] = "Running"}) <= 1}
  /\ pending = [v \in VmIds |-> FALSE]
  /\ launch_state = LaunchState_default
  /\ shutdown_state = ShutdownState_default
  /\ tasks \in {SetToBag({FallbackTask(n)}) : n \in FallbackNames}
  /\ poll_attempts = IF MaxPollAttempts < ShutdownPollAttempts
                     THEN MaxPollAttempts ELSE ShutdownPollAttempts
  /\ last = Event("init", NoCall, NoResult, FALSE)

WatchNext == FallbackStep \/ LaunchNext \/ Quiesce

\* The watchdog beside the launch coordinator, on the same hypervisor.
WatchSpec == WatchInit /\ [][WatchNext]_vars

\* ------------------------------------------------------------ fork handler

\* Attempts of wait_for_vm's loop (for attempt in 1..=30).
ForkPollAttempts == 30

\* The ids /cluster/nextid can hand out for a clone, in listing order.
CloneIds == <<101, 102>>

\* ProxmoxError::Api(message)
ProxmoxError_Api(message) == [kind |-> "Api", message |-> message]

\* format!("Timed out waiting for VM {vmid} to appear")
Err_ForkTimedOut(vmid) ==
  ProxmoxError_Api(<<"Timed out waiting for VM ", ToString(vmid),
                     " to appear">>)

\* An error answered by the hypervisor or the transport to a client call.
UpstreamErrors == {[kind |-> k, message |-> <<"upstream">>] : k \in ProxmoxError}

\* ForkResponse::created
ForkResponse_created(vmid) ==
  [status |-> "created", message |-> "VM fork created.", vmid |-> vmid]

\* fork_vm's .map_err(map_proxmox_error)
ForkHttpErr(e) ==
  [http |-> map_proxmox_error(e).http, ok |-> << >>, err |-> <<e>>,
   error |-> map_proxmox_error(e).error]

\* ProxmoxClient::list_vms once clones exist: the inventory and the clones
\* the hypervisor has materialised.
fork_list_vms ==
  list_vms \o
  [i \in 1..Len(SelectSeq(CloneIds, LAMBDA c : c \in DOMAIN status)) |->
     LET c == SelectSeq(CloneIds, LAMBDA d : d \in DOMAIN status)[i]
     IN  [vmid |-> c, name |-> "clone", tags |-> << >>, status |-> status[c]]]

\* A faulty visibility test: any listed VM counts as the clone.
fork_visible_any(vms, vmid) == Len(vms) > 0

\* vms.iter().any(|vm| vm.vmid == vmid)
fork_visible(vms, vmid) == \E i \in 1..Len(vms) : vms[i].vmid = vmid

\* The state with the inventory at rest and one fork request admitted at a
\* time.
ForkInit ==
  /\ handlers = 1
  /\ status \in [VmIds -> {"Running", "Stopped"}]
  /\ pending = [v \in VmIds |-> FALSE]
  /\ launch_state = LaunchState_default
  /\ shutdown_state = ShutdownState_default
  /\ tasks = EmptyBag
  /\ poll_attempts = IF MaxPollAttempts < ShutdownPollAttempts
                     THEN MaxPollAttempts ELSE ShutdownPollAttempts
  /\ last = Event("init", NoCall, NoResult, FALSE)

\* The handler fork_vm up to wait_for_vm: client.fork_vm asks the next id,
\* snapshots the source and sends the clone command.  A failure of any of the
\* three is answered through map_proxmox_error; otherwise the handler waits.
fork_entry(vmid) ==
  /\ BagCardinality(tasks) < handlers
  /\ \/ /\ \E e \in UpstreamErrors :
             last' = Event("k_entry", Call("fork_vm", vmid), ForkHttpErr(e),
                           FALSE)
        /\ UNCHANGED tasks
     \/ /\ \E i \in 1..Len(CloneIds) :
             /\ CloneIds[i] \notin DOMAIN status
             /\ tasks' = tasks (+) SetToBag({[pc |-> "k_wait",
                                              new_vmid |-> CloneIds[i],
                                              attempt |-> 1]})
        /\ last' = Event("k_entry", Call("fork_vm", vmid), NoResult, FALSE)
  /\ UNCHANGED <<status, pending, launch_state, shutdown_state, handlers,
                 poll_attempts>>

\* The hypervisor finishes a clone some handler waits for: the new VM shows
\* in the listings from now on.
CloneAppears ==
  /\ \E t \in Live :
       /\ t.pc = "k_wait"
       /\ t.new_vmid \notin DOMAIN status
       /\ status' = [v \in DOMAIN status \cup {t.new_vmid} |->
                       IF v = t.new_vmid THEN "Stopped" ELSE status[v]]
  /\ last' = Event("clone", NoCall, NoResult, FALSE)
  /\ UNCHANGED <<pending, launch_state, shutdown_state, tasks, handlers,
                 poll_attempts>>

\* One iteration of wait_for_vm and, when it ends the loop, the rest of the
\* handler: a failed listing returns its error, a listing with the new vmid
\* returns created(new_vmid), any other listing sleeps 2 s and retries, and
\* the 30th such listing returns the timeout error.
fork_poll(t) ==
  /\ t.pc = "k_wait"
  /\ \/ /\ \E e \in UpstreamErrors :
             last' = Event("k_wait", Call("list_vms", 0), ForkHttpErr(e),
                           FALSE)
        /\ Ends(t)
     \/ IF fork_visible(fork_list_vms, t.new_vmid)
        THEN /\ last' = Event("k_wait", Call("list_vms", 0),
                              HttpOk(ForkResponse_created(t.new_vmid)), FALSE)
             /\ Ends(t)
        ELSE IF t.attempt < ForkPollAttempts
        THEN /\ last' = Event("k_wait", Call("list_vms", 0), NoResult, FALSE)
             /\ Becomes(t, [t EXCEPT !.attempt = t.attempt + 1])
        ELSE /\ last' = Event("k_wait", Call("list_vms", 0),
                              ForkHttpErr(Err_ForkTimedOut(t.new_vmid)),
                              FALSE)
             /\ Ends(t)
  /\ UNCHANGED <<status, pending, launch_state, shutdown_state, handlers,
                 poll_attempts>>

ForkNext ==
  \/ \E vmid \in VmIds : fork_entry(vmid)
  \/ \E t \in Live : fork_poll(t)
  \/ CloneAppears

\* The fork handler against a hypervisor that finishes the clone at any time
\* or never.
ForkSpec == ForkInit /\ [][ForkNext]_vars

\* -------------------------------------------------- the request surface

\* Result<T, E> of a coordinator or of the client.
Ok(response) == [ok |-> <<response>>, err |-> << >>]

Err(e) == [ok |-> << >>, err |-> <<e>>]

\* The values of ProxmoxError the client and wait_for_vm produce.
ProxmoxErrors ==
  UpstreamErrors \cup {Err_ForkTimedOut(CloneIds[i]) : i \in 1..Len(CloneIds)}

\* Every value LaunchManager::launch can return.
LaunchResults ==
  {Ok(r) : r \in {LaunchResponse_started, LaunchResponse_updated,
                  LaunchResponse_already_running, LaunchResponse_cancelled}
                 \cup {LaunchResponse_needs_action(Inventory[i]) :
                         i \in 1..Len(Inventory)}}
  \cup {Err(Err_InProgress)}
  \cup {Err(Err_Proxmox(e)) : e \in ProxmoxErrors}

\* Every value ShutdownManager::shutdown can return.
ShutdownResults ==
  {Ok(r) : r \in {ShutdownResponse_started, ShutdownResponse_cancelled}
                 \cup {ShutdownResponse_needs_action(Inventory[i]) :
                         i \in 1..Len(Inventory)}}
  \cup {Err(Err_InProgress)}
  \cup {Err(Err_Proxmox(e)) : e \in ProxmoxErrors}
  \cup {Err(Err_ShutdownFailed(v)) : v \in VmIds}

\* Every value client.fork_vm followed by wait_for_vm can return.
ForkResults ==
  {Ok(ForkResponse_created(CloneIds[i])) : i \in 1..Len(CloneIds)}
  \cup {Err(e) : e \in ProxmoxErrors}

\* The server with no request in flight.
SurfaceInit ==
  /\ handlers = 1
  /\ status = [v \in VmIds |-> "Stopped"]
  /\ pending = [v \in VmIds |-> FALSE]
  /\ launch_state = LaunchState_default
  /\ shutdown_state = ShutdownState_default
  /\ tasks = EmptyBag
  /\ poll_attempts = IF MaxPollAttempts < ShutdownPollAttempts
                     THEN MaxPollAttempts ELSE ShutdownPollAttempts
  /\ last = Event("init", NoCall, NoResult, FALSE)

\* A handler's call into its coordinator has come back with `result`.
coordinator_returns ==
  /\ BagCardinality(tasks) < handlers
  /\ \/ \E r \in LaunchResults :
          tasks' = tasks (+) SetToBag({[pc |-> "m_launch", result |-> r]})
     \/ \E r \in ShutdownResults :
          tasks' = tasks (+) SetToBag({[pc |-> "m_shutdown", result |-> r]})
     \/ \E r \in ForkResults :
          tasks' = tasks (+) SetToBag({[pc |-> "m_fork", result |-> r]})
  /\ UNCHANGED <<status, pending, launch_state, shutdown_state, handlers,
                 poll_attempts, last>>

\* The handler launch: .map_err(map_launch_error)?; Ok(Json(response))
launch_respond(t) ==
  /\ t.pc = "m_launch"
  /\ last' = Event("m_launch", NoCall,
                   IF t.result.err = << >>
                   THEN HttpOk(t.result.ok[1])
                   ELSE LaunchHttpErr(t.result.err[1]), FALSE)
  /\ Ends(t)
  /\ UNCHANGED <<status, pending, launch_state, shutdown_state, handlers,
                 poll_attempts>>

\* The handler host_shutdown: .map_err(map_shutdown_error)?;
\* Ok(Json(response))
shutdown_respond(t) ==
  /\ t.pc = "m_shutdown"
  /\ last' = Event("m_shutdown", NoCall,
                   IF t.result.err = << >>
                   THEN HttpOk(t.result.ok[1])
                   ELSE ShutdownHttpErr(t.result.err[1]), FALSE)
  /\ Ends(t)
  /\ UNCHANGED <<status, pending, launch_state, shutdown_state, handlers,
                 poll_attempts>>

\* The handler fork_vm: .map_err(map_proxmox_error)?; Ok(Json(response))
fork_respond(t) ==
  /\ t.pc = "m_fork"
  /\ last' = Event("m_fork", NoCall,
                   IF t.result.err = << >>
                   THEN HttpOk(t.result.ok[1])
                   ELSE ForkHttpErr(t.result.err[1]), FALSE)
  /\ Ends(t)
  /\ UNCHANGED <<status, pending, launch_state, shutdown_state, handlers,
                 poll_attempts>>

SurfaceNext ==
  \/ coordinator_returns
  \/ \E t \in Live :
       \/ launch_respond(t)
       \/ shutdown_respond(t)
       \/ fork_respond(t)

\* The handlers' answers to every result of their coordinators.
SurfaceSpec == SurfaceInit /\ [][SurfaceNext]_vars

\* ---------------------------------------------------------------- parse_tags

\* Longest raw tag string drawn.
MaxRawLen == 4

\* The characters of the raw tag strings drawn: letters, white space, the two
\* separators.
RawChars == {"a", "b", " ", "\t", ";", ","}

\* Characters str::trim removes.
WhiteSpace == {" ", "\t"}

\* str::split(pattern): the pieces between the characters of `seps`, the
\* empty ones included.
RECURSIVE split(_, _)
split(s, seps) ==
  IF \E i \in 1..Len(s) : s[i] \in seps
  THEN LET i == CHOOSE k \in 1..Len(s) :
                  /\ s[k] \in seps
                  /\ \A j \in 1..(k - 1) : s[j] \notin seps
       IN  <<SubSeq(s, 1, i - 1)>> \o split(SubSeq(s, i + 1, Len(s)), seps)
  ELSE <<s>>

RECURSIVE trim_start(_)
trim_start(s) ==
  IF s # << >> /\ Head(s) \in WhiteSpace THEN trim_start(Tail(s)) ELSE s

RECURSIVE trim_end(_)
trim_end(s) ==
  IF s # << >> /\ s[Len(s)] \in WhiteSpace
  THEN trim_end(SubSeq(s, 1, Len(s) - 1)) ELSE s

\* str::trim
trim(s) == trim_end(trim_start(s))

\* A faulty parse_tags: the comma is not a separator.
parse_tags_semicolon_only(raw) ==
  LET pieces == split(IF raw = << >> THEN << >> ELSE raw[1], {";"})
  IN  SelectSeq([i \in 1..Len(pieces) |-> trim(pieces[i])],
                LAMBDA tag : tag # << >>)

\* fn parse_tags: raw is an Option of a string, the result a list of strings.
parse_tags(raw) ==
  LET pieces == split(IF raw = << >> THEN << >> ELSE raw[1], {";", ","})
  IN  SelectSeq([i \in 1..Len(pieces) |-> trim(pieces[i])],
                LAMBDA tag : tag # << >>)

\* A listing is about to convert the tags field of a VM: missing, or any
\* string up to MaxRawLen characters.
TagsInit ==
  /\ handlers = 1
  /\ status = [v \in VmIds |-> "Stopped"]
  /\ pending = [v \in VmIds |-> FALSE]
  /\ launch_state = LaunchState_default
  /\ shutdown_state = ShutdownState_default
  /\ \E raw \in {<< >>} \cup
                {<<str>> : str \in UNION {[1..n -> RawChars] : n \in 0..MaxRawLen}} :
       tasks = SetToBag({[pc |-> "p_raw", raw |-> raw, tags |-> << >>]})
  /\ poll_attempts = IF MaxPollAttempts < ShutdownPollAttempts
                     THEN MaxPollAttempts ELSE ShutdownPollAttempts
  /\ last = Event("init", NoCall, NoResult, FALSE)

\* list_vms: tags: parse_tags(vm.tags.as_deref())
tags_convert(t) ==
  /\ t.pc = "p_raw"
  /\ Becomes(t, [t EXCEPT !.pc = "p_tags", !.tags = parse_tags(t.raw)])
  /\ last' = Event("p_raw", NoCall, NoResult, FALSE)
  /\ UNCHANGED <<status, pending, launch_state, shutdown_state, handlers,
                 poll_attempts>>

TagsNext == \E t \in Live : tags_convert(t)

\* parse_tags applied to every raw tag string up to MaxRawLen characters.
TagsSpec == TagsInit /\ [][TagsNext]_vars

\* ------------------------------------------------------- VmStatus::normalize

\* The status words the hypervisor is asked to report, and near misses: a
\* word cut short, one with a trailing blank, another state, the empty string.
StatusWords ==
  { <<"r", "u", "n", "n", "i", "n", "g">>,
    <<"s", "t", "o", "p", "p", "e", "d">>,
    <<"r", "u", "n", "n", "i", "n">>,
    <<"s", "t", "o", "p", "p", "e", "d", " ">>,
    <<"p", "a", "u", "s", "e", "d">>,
    << >> }

\* The word w with the letters at the positions of S in upper case.
Capitalised(w, S) ==
  [i \in 1..Len(w) |->
     IF i \in S /\ \E k \in 1..26 : LowerCase[k] = w[i]
     THEN UpperCase[CHOOSE k \in 1..26 : LowerCase[k] = w[i]]
     ELSE w[i]]

\* The raw status fields drawn: missing, or a status word in any mix of
\* upper and lower case.
RawStatuses ==
  {<< >>} \cup
  {<<Capitalised(w, S)>> : w \in StatusWords, S \in SUBSET (1..8)}

\* str::to_lowercase; on the characters drawn here, all of them ASCII, it
\* changes A-Z only.
to_lowercase(str) == [i \in 1..Len(str) |-> to_ascii_lowercase(str[i])]

\* A faulty normalize: the raw status is matched as it is.
normalize_case_sensitive(raw) ==
  LET str == IF raw = << >> THEN << >> ELSE raw[1]
  IN  IF str = <<"r", "u", "n", "n", "i", "n", "g">> THEN "Running"
      ELSE IF str = <<"s", "t", "o", "p", "p", "e", "d">> THEN "Stopped"
      ELSE "Unknown"

\* VmStatus::normalize: raw is an Option of a string.
normalize(raw) ==
  LET str == to_lowercase(IF raw = << >> THEN << >> ELSE raw[1])
  IN  IF str = <<"r", "u", "n", "n", "i", "n", "g">> THEN "Running"
      ELSE IF str = <<"s", "t", "o", "p", "p", "e", "d">> THEN "Stopped"
      ELSE "Unknown"

\* A client call is about to convert the status field of an answer.
NormalizeInit ==
  /\ handlers = 1
  /\ status = [v \in VmIds |-> "Stopped"]
  /\ pending = [v \in VmIds |-> FALSE]
  /\ launch_state = LaunchState_default
  /\ shutdown_state = ShutdownState_default
  /\ \E raw \in RawStatuses :
       tasks = SetToBag({[pc |-> "n_raw", raw |-> raw, status |-> "none"]})
  /\ poll_attempts = IF MaxPollAttempts < ShutdownPollAttempts
                     THEN MaxPollAttempts ELSE ShutdownPollAttempts
  /\ last = Event("init", NoCall, NoResult, FALSE)

\* list_vms / vm_status: status: VmStatus::normalize(...)
status_convert(t) ==
  /\ t.pc = "n_raw"
  /\ Becomes(t, [t EXCEPT !.pc = "n_status", !.status = normalize(t.raw)])
  /\ last' = Event("n_raw", NoCall, NoResult, FALSE)
  /\ UNCHANGED <<status, pending, launch_state, shutdown_state, handlers,
                 poll_attempts>>

NormalizeNext == \E t \in Live : status_convert(t)

\* normalize applied to every raw status drawn.
NormalizeSpec == NormalizeInit /\ [][NormalizeNext]_vars

\* ------------------------------------------------- the coordinator mutexes

\* The two coordinators at the grain of their mutexes: taking a lock
\* (self.state.lock().await) and the section run under it are separate steps,
\* and a handler's local `state`, the MutexGuard, is a field of its record.
\* A mutex is locked exactly while some handler has its guard.  The answers
\* of the hypervisor are drawn freely: any listing, any status, any failure.

\* The locals of a handler of either coordinator.  `guard` names the mutex
\* whose MutexGuard the handler holds: "launch", "shutdown" or "none".
LockTask(pc, target_vmid, action) ==
  [pc |-> pc, guard |-> "none", target_vmid |-> target_vmid,
   action |-> action, running |-> FALSE, current_action |-> None,
   attempt |-> 0]

\* Where a handler waits for a mutex, which mutex, and the section it enters.
LockPoints ==
  { [pc |-> "la_lock1", mutex |-> "launch", sect |-> "la_sect1"],
    [pc |-> "la_lock2", mutex |-> "launch", sect |-> "la_sect2"],
    [pc |-> "la_lock4", mutex |-> "launch", sect |-> "la_sect4"],
    [pc |-> "la_lock3", mutex |-> "launch", sect |-> "la_sect3"],
    [pc |-> "sh_lock1", mutex |-> "shutdown", sect |-> "sh_sect1"],
    [pc |-> "sh_lock2", mutex |-> "shutdown", sect |-> "sh_sect2"],
    [pc |-> "sh_lock3", mutex |-> "shutdown", sect |-> "sh_sect3"] }

\* Where a handler waits for a hypervisor call or for the 2 s timer.
AwaitPcs ==
  {"la_list", "la_act", "la_poll", "la_escalate", "la_sleep", "la_start",
   "sh_list", "sh_act", "sh_poll", "sh_sleep", "sh_final"}

\* A faulty end of a lock section: the guard outlives its block.
keep_guard(t) == t

\* The end of the block, or of the statement, that declared the guard.
drop_guard(t) == [t EXCEPT !.guard = "none"]

\* The same room for handlers as in the race specification.  The hypervisor
\* variables stay as they are here: the answers are drawn at each call.
LockInit ==
  /\ RaceInit
  /\ status = [v \in VmIds |-> "Stopped"]

\* What a listing can answer about a running VM: none, or any VM of the
\* inventory.
RunningAnswers ==
  {NoVm} \cup {Some([list_vms[i] EXCEPT !.status = "Running"]) :
                 i \in 1..Len(list_vms)}

\* A launch or host-shutdown request arrives and asks for its mutex.
lock_request ==
  /\ MaySuspend
  /\ \/ \E target_vmid \in VmIds, action \in OptAction :
          tasks' = tasks (+) SetToBag({LockTask("la_lock1", target_vmid,
                                               action)})
     \/ \E action \in OptAction :
          tasks' = tasks (+) SetToBag({LockTask("sh_lock1", 0, action)})
  /\ UNCHANGED <<status, pending, launch_state, shutdown_state, handlers,
                 poll_attempts, last>>

\* Mutex::lock resolves for t: the mutex is free, t gets the guard.
lock_acquire(t) ==
  /\ \E p \in LockPoints :
       /\ t.pc = p.pc
       /\ \A u \in Live : u.guard # p.mutex
       /\ Becomes(t, [t EXCEPT !.pc = p.sect, !.guard = p.mutex])
  /\ UNCHANGED <<status, pending, launch_state, shutdown_state, handlers,
                 poll_attempts, last>>

\* LaunchManager::launch, the first section: a return drops the guard with
\* the frame, the end of the block drops it before list_vms.
lock_launch_first(t) ==
  /\ t.pc = "la_sect1"
  /\ launch_state' = launch_admit(launch_state, t.action).state
  /\ IF launch_state.in_progress
     THEN Ends(t)
     ELSE Becomes(t, drop_guard([t EXCEPT !.pc = "la_list"]))
  /\ UNCHANGED <<status, pending, shutdown_state, handlers, poll_attempts,
                 last>>

\* LaunchManager::launch: list_vms answers, the rules decide.
lock_launch_list(t) ==
  /\ t.pc = "la_list"
  /\ \/ \E e \in ListErrors : Ends(t)
     \/ \E running_vm \in RunningAnswers :
          LET d == launch_decision(t.target_vmid, t.action, running_vm)
          IN  IF d.ret # << >>
              THEN Ends(t)
              ELSE Becomes(t, [t EXCEPT !.pc = "la_lock2",
                                        !.target_vmid = 0,
                                        !.running = running_vm # NoVm,
                                        !.action = d.action])
  /\ UNCHANGED <<status, pending, launch_state, shutdown_state, handlers,
                 poll_attempts, last>>

\* LaunchManager::launch, the second section, and run_flow up to its first
\* await.
lock_launch_commit(t) ==
  /\ t.pc = "la_sect2"
  /\ launch_state' = [in_progress |-> TRUE, requested_action |-> t.action]
  /\ Becomes(t, drop_guard(
                  IF t.running
                  THEN [t EXCEPT !.pc = "la_act", !.action = None,
                                 !.current_action =
                                    IF t.action = None THEN "Terminate"
                                    ELSE t.action]
                  ELSE [t EXCEPT !.pc = "la_start", !.action = None]))
  /\ UNCHANGED <<status, pending, shutdown_state, handlers, poll_attempts,
                 last>>

\* run_flow: a hypervisor call of the launch flow answers.  The first action
\* and the escalation go on to the status read (the escalation through the
\* sleep), a status read leaves the loop or asks for the mutex, start_vm and
\* every failure go to the third section.
lock_launch_call(t) ==
  /\ \/ /\ t.pc = "la_act"
        /\ \/ Becomes(t, [t EXCEPT !.pc = "la_poll"])
           \/ \E e \in VmErrors : Becomes(t, [t EXCEPT !.pc = "la_lock3"])
     \/ /\ t.pc = "la_poll"
        /\ \/ \E st \in VmStatus :
                Becomes(t, IF launch_drained(st)
                           THEN [t EXCEPT !.pc = "la_start"]
                           ELSE [t EXCEPT !.pc = "la_lock4"])
           \/ \E e \in VmErrors : Becomes(t, [t EXCEPT !.pc = "la_lock3"])
     \/ /\ t.pc = "la_escalate"
        /\ \/ Becomes(t, [t EXCEPT !.pc = "la_sleep",
                                    !.current_action = "Terminate"])
           \/ \E e \in VmErrors : Becomes(t, [t EXCEPT !.pc = "la_lock3"])
     \/ /\ t.pc = "la_sleep"
        /\ Becomes(t, [t EXCEPT !.pc = "la_poll"])
     \/ /\ t.pc = "la_start"
        /\ Becomes(t, [t EXCEPT !.pc = "la_lock3", !.current_action = None])
  /\ UNCHANGED <<status, pending, launch_state, shutdown_state, handlers,
                 poll_attempts, last>>

\* run_flow, the block that reads requested_action: the guard is dropped at
\* its end, before the escalation or the sleep.
lock_launch_reread(t) ==
  /\ t.pc = "la_sect4"
  /\ Becomes(t, drop_guard(
                  IF launch_escalates(launch_state.requested_action,
                                      t.current_action)
                  THEN [t EXCEPT !.pc = "la_escalate"]
                  ELSE [t EXCEPT !.pc = "la_sleep"]))
  /\ UNCHANGED <<status, pending, launch_state, shutdown_state, handlers,
                 poll_attempts, last>>

\* LaunchManager::launch, the third section: the guard lives to the return.
lock_launch_reset(t) ==
  /\ t.pc = "la_sect3"
  /\ launch_state' = launch_release(launch_state)
  /\ Ends(t)
  /\ UNCHANGED <<status, pending, shutdown_state, handlers, poll_attempts,
                 last>>

\* ShutdownManager::shutdown, the first section.
lock_shutdown_first(t) ==
  /\ t.pc = "sh_sect1"
  /\ IF shutdown_state.in_progress
     THEN Ends(t)
     ELSE Becomes(t, drop_guard([t EXCEPT !.pc = "sh_list"]))
  /\ UNCHANGED <<status, pending, launch_state, shutdown_state, handlers,
                 poll_attempts, last>>

\* ShutdownManager::shutdown: list_vms answers, the rules decide.
lock_shutdown_list(t) ==
  /\ t.pc = "sh_list"
  /\ \/ \E e \in ListErrors : Ends(t)
     \/ \E running_vm \in RunningAnswers :
          IF shutdown_decision(t.action, running_vm) # << >>
          THEN Ends(t)
          ELSE Becomes(t, [t EXCEPT !.pc = "sh_lock2",
                                    !.running = running_vm # NoVm])
  /\ UNCHANGED <<status, pending, launch_state, shutdown_state, handlers,
                 poll_attempts, last>>

\* ShutdownManager::shutdown, the second section, and run_flow up to its
\* first await; with no running VM run_flow has none.
lock_shutdown_commit(t) ==
  /\ t.pc = "sh_sect2"
  /\ shutdown_state' = [in_progress |-> TRUE]
  /\ Becomes(t, drop_guard(
                  IF t.running
                  THEN [t EXCEPT !.pc = "sh_act", !.action = None]
                  ELSE [t EXCEPT !.pc = "sh_lock3", !.action = None]))
  /\ UNCHANGED <<status, pending, launch_state, handlers, poll_attempts,
                 last>>

\* run_flow: a hypervisor call of the shutdown flow answers, or its timer
\* fires.
lock_shutdown_call(t) ==
  /\ \/ /\ t.pc = "sh_act"
        /\ \/ Becomes(t, [t EXCEPT !.pc = "sh_poll", !.attempt = 1])
           \/ \E e \in VmErrors : Becomes(t, [t EXCEPT !.pc = "sh_lock3"])
     \/ /\ t.pc = "sh_poll"
        /\ \/ \E st \in VmStatus :
                Becomes(t, IF st = "Stopped"
                           THEN [t EXCEPT !.pc = "sh_final", !.attempt = 0]
                           ELSE [t EXCEPT !.pc = "sh_sleep"])
           \/ \E e \in VmErrors :
                Becomes(t, [t EXCEPT !.pc = "sh_lock3", !.attempt = 0])
     \/ /\ t.pc = "sh_sleep"
        /\ Becomes(t, IF t.attempt >= poll_attempts
                      THEN [t EXCEPT !.pc = "sh_final", !.attempt = 0]
                      ELSE [t EXCEPT !.pc = "sh_poll", !.attempt = @ + 1])
     \/ /\ t.pc = "sh_final"
        /\ Becomes(t, [t EXCEPT !.pc = "sh_lock3"])
  /\ UNCHANGED <<status, pending, launch_state, shutdown_state, handlers,
                 poll_attempts, last>>

\* ShutdownManager::shutdown, the third section: the guard lives to the
\* return.
lock_shutdown_reset(t) ==
  /\ t.pc = "sh_sect3"
  /\ shutdown_state' = shutdown_release(shutdown_state)
  /\ Ends(t)
  /\ UNCHANGED <<status, pending, launch_state, handlers, poll_attempts,
                 last>>

LockNext ==
  \/ lock_request
  \/ \E t \in Live :
       \/ lock_acquire(t)
       \/ lock_launch_first(t)
       \/ lock_launch_list(t)
       \/ lock_launch_commit(t)
       \/ lock_launch_call(t)
       \/ lock_launch_reread(t)
       \/ lock_launch_reset(t)
       \/ lock_shutdown_first(t)
       \/ lock_shutdown_list(t)
       \/ lock_shutdown_commit(t)
       \/ lock_shutdown_call(t)
       \/ lock_shutdown_reset(t)

\* The coordinators at the grain of their mutexes.
LockSpec == LockInit /\ [][LockNext]_vars

\* --------------------------------------------------------------- GET /api/vms

\* Longest answer of /cluster/resources drawn, in records.
MaxListed == 2

\* The records /cluster/resources can answer with (ResourceVm): every field
\* but vmid is optional; tags, status and description are character strings.
ResourceVms ==
  [vmid : {101},
   name : {<< >>, <<"alpha">>},
   tags : {<< >>, << <<"a", ";", " ", "b">> >>},
   status : {<< >>, << <<"r", "u", "n", "n", "i", "n", "g">> >>,
             << <<"S", "t", "o", "p", "p", "e", "d">> >>},
   description : {<< >>, << <<" ", "\t">> >>, << <<"a", " ", "b", " ">> >>}]

\* ProxmoxClient::list_vms, the closure that builds a VmInfo from a record: a
\* missing name is the empty string, a blank description no notes.
VmInfo_from(vm) ==
  [vmid |-> vm.vmid,
   name |-> IF vm.name = << >> THEN "" ELSE vm.name[1],
   tags |-> parse_tags(vm.tags),
   status |-> normalize(vm.status),
   notes |-> IF vm.description # << >> /\ trim(vm.description[1]) # << >>
             THEN vm.description ELSE << >>]

\* A faulty conversion: a status that is not Running is shown as stopped.
ApiVm_from_unknown_as_stopped(vm) ==
  [vmid |-> vm.vmid, name |-> vm.name, tags |-> vm.tags,
   status |-> IF vm.status = "Running" THEN "running" ELSE "stopped",
   notes |-> vm.notes]

\* impl From<VmInfo> for ApiVm
ApiVm_from(vm) ==
  [vmid |-> vm.vmid, name |-> vm.name, tags |-> vm.tags,
   status |-> CASE vm.status = "Running" -> "running"
                [] vm.status = "Stopped" -> "stopped"
                [] vm.status = "Unknown" -> "unknown",
   notes |-> vm.notes]

\* GET /api/vms has arrived: the handler has called client.list_vms and
\* waits for the hypervisor, which will answer with `resources` unless the
\* call fails.
ListInit ==
  /\ handlers = 1
  /\ status = [v \in VmIds |-> "Stopped"]
  /\ pending = [v \in VmIds |-> FALSE]
  /\ launch_state = LaunchState_default
  /\ shutdown_state = ShutdownState_default
  /\ \E n \in 0..MaxListed :
       \E resources \in [1..n -> ResourceVms] :
         tasks = SetToBag({[pc |-> "v_list", resources |-> resources]})
  /\ poll_attempts = IF MaxPollAttempts < ShutdownPollAttempts
                     THEN MaxPollAttempts ELSE ShutdownPollAttempts
  /\ last = Event("init", NoCall, NoResult, FALSE)

\* The handler list_vms: the client's listing, converted record by record, or
\* the client's error through map_proxmox_error.
api_list_vms(t) ==
  /\ t.pc = "v_list"
  /\ \/ \E e \in UpstreamErrors :
          last' = Event("v_list", Call("list_vms", 0), ForkHttpErr(e), FALSE)
     \/ LET vms == [i \in 1..Len(t.resources) |-> VmInfo_from(t.resources[i])]
        IN  last' = Event("v_list", Call("list_vms", 0),
                          HttpOk([i \in 1..Len(vms) |-> ApiVm_from(vms[i])]),
                          FALSE)
  /\ Ends(t)
  /\ UNCHANGED <<status, pending, launch_state, shutdown_state, handlers,
                 poll_attempts>>

ListNext == \E t \in Live : api_list_vms(t)

\* The listing handler on every answer of the hypervisor drawn.
ListSpec == ListInit /\ [][ListNext]_vars

\* ---------------------------------------------------- ProxmoxClient::fork_vm

\* The decimal digits, Digits[d + 1] spelling d.
Digits == <<"0", "1", "2", "3", "4", "5", "6", "7", "8", "9">>

\* The strings /cluster/nextid is answered with here: two ids, an id with a
\* sign, the empty string and a string that is no number.
NextIdAnswers ==
  {<<"1", "0", "1">>, <<"1", "0", "2">>, <<"+", "7">>, << >>, <<"1", "x">>}

\* The seconds since the epoch the clock may show when fork_vm is called.
ForkSeconds == {1700000000, 1700000001}

\* The names a fork is asked under.
ForkNames == {"web", "db"}

\* The answers of /cluster/resources?type=vm to node_for_vmid(vmid): the VM
\* not listed, listed without a node, listed on a node, and listed twice, the
\* first time without a node.
NodeAnswers(vmid) ==
  {<< >>,
   <<[vmid |-> vmid, node |-> << >>]>>,
   <<[vmid |-> vmid + 1, node |-> <<"pve2">>],
     [vmid |-> vmid, node |-> <<"pve">>]>>,
   <<[vmid |-> vmid, node |-> << >>], [vmid |-> vmid, node |-> <<"pve">>]>>}

\* ProxmoxError of a request: reqwest's error, a non-success status
\* (ensure_success), and for a GET the JSON that does not decode.
RequestErrors(method) ==
  {[kind |-> "Reqwest", message |-> <<"send">>],
   ProxmoxError_Api(<<"status 500">>)}
  \cup IF method = "GET"
       THEN {[kind |-> "Serde", message |-> <<"json">>]}
       ELSE {}

\* ProxmoxError::MissingNode(vmid)
ProxmoxError_MissingNode(vmid) ==
  [kind |-> "MissingNode", message |-> <<ToString(vmid)>>]

\* The value of a string of digits.
RECURSIVE digits_value(_)
digits_value(str) ==
  IF str = << >> THEN 0
  ELSE 10 * digits_value(SubSeq(str, 1, Len(str) - 1))
       + (CHOOSE d \in 0..9 : Digits[d + 1] = str[Len(str)])

\* str::parse::<u64>: an optional "+", then one digit at least and digits
\* only (the strings drawn are far from overflowing).
parse_u64(str) ==
  LET digits == IF str # << >> /\ str[1] = "+" THEN Tail(str) ELSE str
  IN  IF /\ digits # << >>
         /\ \A i \in 1..Len(digits) :
              \E d \in 0..9 : Digits[d + 1] = digits[i]
      THEN Ok(digits_value(digits))
      ELSE Err(<<"invalid digit">>)

\* next_vmid, on the string answered: the id, or Api("Invalid next VMID: ..").
next_vmid(nextid) ==
  IF parse_u64(nextid).err = << >>
  THEN parse_u64(nextid)
  ELSE Err(ProxmoxError_Api(<<"Invalid next VMID: ">> \o parse_u64(nextid).err[1]))

\* node_for_vmid, on the resources answered: the node of the first entry with
\* that vmid, or MissingNode(vmid).
node_for_vmid(resources, vmid) ==
  LET hits == {i \in 1..Len(resources) : resources[i].vmid = vmid}
      first == CHOOSE i \in hits : \A j \in hits : i <= j
  IN  IF hits # {} /\ resources[first].node # << >>
      THEN Ok(resources[first].node[1])
      ELSE Err(ProxmoxError_MissingNode(vmid))

\* format!("fork-{}", secs)
SnapshotName(secs) == <<"fork-", ToString(secs)>>

\* A request of the client: GET path, or POST path with a form.
Request(method, path, form) ==
  [method |-> method, path |-> path, form |-> form]

NextIdRequest == Request("GET", <<"/cluster/nextid">>, << >>)

ResourcesRequest == Request("GET", <<"/cluster/resources?type=vm">>, << >>)

\* create_snapshot's POST: SnapshotRequest { snapname }.
SnapshotRequest(node, vmid, snapshot) ==
  Request("POST", <<"/nodes/", node, "/qemu/", ToString(vmid), "/snapshot">>,
          << <<"snapname", snapshot>> >>)

\* A faulty clone request: no snapname, the clone is taken of the current
\* state of the VM.
CloneRequest_current_state(node, vmid, newid, name, snapshot) ==
  Request("POST", <<"/nodes/", node, "/qemu/", ToString(vmid), "/clone">>,
          << <<"newid", ToString(newid)>>, <<"name", name>>, <<"full", "1">> >>)

\* clone_vm's POST: CloneRequest { newid, name, full: 1, snapname }.
CloneRequest(node, vmid, newid, name, snapshot) ==
  Request("POST", <<"/nodes/", node, "/qemu/", ToString(vmid), "/clone">>,
          << <<"newid", ToString(newid)>>, <<"name", name>>, <<"full", "1">>,
             <<"snapname", snapshot>> >>)

\* A call of fork_vm in flight: its arguments, the snapshot name it made, the
\* locals it has so far, the requests it sent with their answers, and its
\* result once it returned.
ClientTask(vmid, name, secs) ==
  [pc |-> "c_nextid", vmid |-> vmid, name |-> name,
   snapshot |-> SnapshotName(secs), newid |-> 0, node |-> << >>,
   sent |-> << >>, ret |-> << >>]

\* One call of fork_vm, on any source VM, name and clock.
ClientInit ==
  /\ handlers = 1
  /\ status = [v \in VmIds |-> "Stopped"]
  /\ pending = [v \in VmIds |-> FALSE]
  /\ launch_state = LaunchState_default
  /\ shutdown_state = ShutdownState_default
  /\ \E vmid \in VmIds, name \in ForkNames, secs \in ForkSeconds :
       tasks = SetToBag({ClientTask(vmid, name, secs)})
  /\ poll_attempts = IF MaxPollAttempts < ShutdownPollAttempts
                     THEN MaxPollAttempts ELSE ShutdownPollAttempts
  /\ last = Event("init", NoCall, NoResult, FALSE)

\* The exchange of one request: it is sent and fails, or it is answered with
\* one of the answers `next` is defined on; next[data] is the task after that
\* answer, gone on or failed by the error the client makes of the answer.
Exchange(t, at, request, next) ==
  /\ t.pc = at
  /\ last' = Event(at, NoCall, NoResult, FALSE)
  /\ \/ \E e \in RequestErrors(request.method) :
          Becomes(t, [t EXCEPT
                        !.pc = "c_done",
                        !.sent = Append(@, [request |-> request,
                                            answer |-> Err(e)]),
                        !.ret = <<Err(e)>>])
     \/ \E data \in DOMAIN next :
          Becomes(t, [next[data] EXCEPT
                        !.sent = Append(@, [request |-> request,
                                            answer |-> Ok(data)])])
  /\ UNCHANGED <<status, pending, launch_state, shutdown_state, handlers,
                 poll_attempts>>

\* The task after an error made by the client itself.
Failed(t, result) == [t EXCEPT !.pc = "c_done", !.ret = <<result>>]

\* fork_vm: `let newid = self.next_vmid().await?`.
client_next_vmid(t) ==
  Exchange(t, "c_nextid", NextIdRequest,
           [nextid \in NextIdAnswers |->
              IF next_vmid(nextid).err = << >>
              THEN [t EXCEPT !.pc = "c_snapshot_node",
                             !.newid = next_vmid(nextid).ok[1]]
              ELSE Failed(t, next_vmid(nextid))])

\* create_snapshot: `let node = self.node_for_vmid(vmid).await?`.
client_snapshot_node(t) ==
  Exchange(t, "c_snapshot_node", ResourcesRequest,
           [resources \in NodeAnswers(t.vmid) |->
              IF node_for_vmid(resources, t.vmid).err = << >>
              THEN [t EXCEPT !.pc = "c_snapshot",
                             !.node = node_for_vmid(resources, t.vmid).ok]
              ELSE Failed(t, node_for_vmid(resources, t.vmid))])

\* create_snapshot: the POST; then fork_vm goes on to clone_vm.
client_create_snapshot(t) ==
  Exchange(t, "c_snapshot", SnapshotRequest(t.node[1], t.vmid, t.snapshot),
           [data \in {<< >>} |->
              [t EXCEPT !.pc = "c_clone_node", !.node = << >>]])

\* clone_vm: `let node = self.node_for_vmid(vmid).await?`.
client_clone_node(t) ==
  Exchange(t, "c_clone_node", ResourcesRequest,
           [resources \in NodeAnswers(t.vmid) |->
              IF node_for_vmid(resources, t.vmid).err = << >>
              THEN [t EXCEPT !.pc = "c_clone",
                             !.node = node_for_vmid(resources, t.vmid).ok]
              ELSE Failed(t, node_for_vmid(resources, t.vmid))])

\* clone_vm: the POST; then fork_vm returns Ok(newid).
client_clone_vm(t) ==
  Exchange(t, "c_clone",
           CloneRequest(t.node[1], t.vmid, t.newid, t.name, t.snapshot),
           [data \in {<< >>} |->
              [t EXCEPT !.pc = "c_done", !.ret = <<Ok(t.newid)>>]])

ClientNext ==
  \/ \E t \in Live : client_next_vmid(t)
  \/ \E t \in Live : client_snapshot_node(t)
  \/ \E t \in Live : client_create_snapshot(t)
  \/ \E t \in Live : client_clone_node(t)
  \/ \E t \in Live : client_clone_vm(t)

\* The client's fork_vm against a hypervisor that may fail or answer anything
\* at each request.
ClientSpec == ClientInit /\ [][ClientNext]_vars

\* ------------------------------------------------------------- remote log

\* The largest max_pending_bytes the log is configured with here.
MaxPendingBytes == 9

\* The configurations drawn: max_pending_bytes and max_upload_bytes.
PendingLimits == {0, 4, MaxPendingBytes}

UploadLimits == {0, 4, 7}

\* The lines handed to log(), one character a byte: JSON objects ("{" and
\* the keys they hold, "h" for hostname, "t" for timestamp_ms, "k" for any
\* other), a JSON value that is no object ("1"), and text that is no JSON.
DataLines ==
  {<<"{">>, <<"{", "h">>, <<"{", "k", "t">>, <<"1">>, <<"x", "x", "x">>}

\* serde_json::from_slice::<Value>(&data), by the kind of value it yields.
json_kind(data) ==
  IF data[1] = "{" THEN "object" ELSE IF data[1] = "1" THEN "other" ELSE "invalid"

\* normalize_line: an object gets hostname and timestamp_ms unless it holds
\* them; anything else is wrapped in an object with hostname, timestamp_ms
\* and the value ("l", log) or the text ("m", message).
normalize_line(data) ==
  LET has(k) == \E i \in 2..Len(data) : data[i] = k
  IN  CASE json_kind(data) = "object" ->
             data \o (IF has("h") THEN << >> ELSE <<"h">>)
                  \o (IF has("t") THEN << >> ELSE <<"t">>)
        [] json_kind(data) = "other" -> <<"{", "h", "t", "l">> \o data
        [] OTHER -> <<"{", "h", "t", "m">> \o data

\* usize::saturating_sub
saturating_sub(a, b) == IF a > b THEN a - b ELSE 0

\* RemoteLogState and the handle's two limits, with the upload loop's
\* position and the batch it is sending.
RemoteLog(max_pending_bytes, max_upload_bytes) ==
  [pc |-> "u_sleep", entries |-> << >>, pending_bytes |-> 0, batch |-> << >>,
   max_pending_bytes |-> max_pending_bytes,
   max_upload_bytes |-> max_upload_bytes]

\* A faulty limit test: nothing is ever too much.
log_overflows_never(pending_bytes, len, max_pending_bytes) == FALSE

\* log: state.pending_bytes + normalized.len() > this.max_pending_bytes
log_overflows(pending_bytes, len, max_pending_bytes) ==
  pending_bytes + len > max_pending_bytes

RECURSIVE take_loop(_, _, _)

\* A faulty loop test: the first entry too is held to the limit.
batch_closed_even_empty(batch, size, entry_size, max_upload_bytes) ==
  size + entry_size > max_upload_bytes

\* take_next_batch: !batch.is_empty() && size + entry_size > max_upload_bytes
batch_closed(batch, size, entry_size, max_upload_bytes) ==
  batch # << >> /\ size + entry_size > max_upload_bytes

\* take_next_batch, the loop from a state of the queue, the batch and its
\* size: the state and the batch when the loop is left.
take_loop(state, batch, size) ==
  IF state.entries = << >> THEN [state |-> state, batch |-> batch]
  ELSE LET entry == Head(state.entries)
           entry_size == Len(entry)
           popped == [state EXCEPT
                        !.entries = Tail(@),
                        !.pending_bytes = saturating_sub(@, Len(entry))]
       IN  IF batch_closed(batch, size, entry_size, state.max_upload_bytes)
           THEN [state |-> state, batch |-> batch]
           ELSE IF size + entry_size >= state.max_upload_bytes
           THEN [state |-> popped, batch |-> Append(batch, entry)]
           ELSE take_loop(popped, Append(batch, entry), size + entry_size)

\* take_next_batch
take_next_batch(state) == take_loop(state, << >>, 0)

\* The answers of the collector to an upload: success, another status, no
\* answer.
UploadResults ==
  {[NoResult EXCEPT !.http = OK],
   [NoResult EXCEPT !.http = BAD_GATEWAY],
   [NoResult EXCEPT !.error = "send"]}

\* RemoteLogHandle::new and spawn_upload_loop: the queue empty, the loop
\* asleep.
RemoteLogInit ==
  /\ handlers = 0
  /\ status = [v \in VmIds |-> "Stopped"]
  /\ pending = [v \in VmIds |-> FALSE]
  /\ launch_state = LaunchState_default
  /\ shutdown_state = ShutdownState_default
  /\ \E p \in PendingLimits, u \in UploadLimits :
       tasks = SetToBag({RemoteLog(p, u)})
  /\ poll_attempts = IF MaxPollAttempts < ShutdownPollAttempts
                     THEN MaxPollAttempts ELSE ShutdownPollAttempts
  /\ last = Event("init", NoCall, NoResult, FALSE)

\* log, the task it spawns (the server logs from inside the runtime): the
\* line is normalised and, under the lock, queued unless it overflows.
log(t, data) ==
  LET normalized == normalize_line(data)
  IN  /\ Becomes(t, IF log_overflows(t.pending_bytes, Len(normalized),
                                     t.max_pending_bytes)
                    THEN t
                    ELSE [t EXCEPT !.pending_bytes = @ + Len(normalized),
                                   !.entries = Append(@, normalized)])
      /\ last' = Event("r_log", NoCall, NoResult, FALSE)
      /\ UNCHANGED <<status, pending, launch_state, shutdown_state, handlers,
                     poll_attempts>>

\* do_upload after the sleep: take_next_batch under the lock; an empty batch
\* ends the round, any other is sent.
upload_take(t) ==
  /\ t.pc = "u_sleep"
  /\ LET taken == take_next_batch(t)
     IN  Becomes(t, IF taken.batch = << >>
                    THEN taken.state
                    ELSE [taken.state EXCEPT !.pc = "u_send",
                                             !.batch = taken.batch])
  /\ last' = Event("u_sleep", NoCall, NoResult, FALSE)
  /\ UNCHANGED <<status, pending, launch_state, shutdown_state, handlers,
                 poll_attempts>>

\* do_upload: the POST is answered or fails; the batch is gone either way.
upload_send(t) ==
  /\ t.pc = "u_send"
  /\ Becomes(t, [t EXCEPT !.pc = "u_sleep", !.batch = << >>])
  /\ \E r \in UploadResults : last' = Event("u_send", NoCall, r, FALSE)
  /\ UNCHANGED <<status, pending, launch_state, shutdown_state, handlers,
                 poll_attempts>>

RemoteLogNext ==
  \/ \E t \in Live, data \in DataLines : log(t, data)
  \/ \E t \in Live : upload_take(t)
  \/ \E t \in Live : upload_send(t)

\* The log buffer between the writers and the upload loop.
RemoteLogSpec == RemoteLogInit /\ [][RemoteLogNext]_vars

\* --------------------------------------------------------------- properties

\* The places in the code after the commit of a launch / of a shutdown.
LaunchCommittedPcs ==
  {"l_act", "l_poll", "l_reread", "l_escalate", "l_start", "l_reset"}

ShutdownCommittedPcs == {"s_act", "s_poll", "s_final", "s_reset"}

\* Number of suspended handlers that are at one of the places `pcs`.
FlowsAt(pcs) ==
  BagCardinality([t \in {u \in Live : u.pc \in pcs} |-> tasks[t]])

\* The step just taken was taken by handler t, which was at `at`.
Took(t, at) ==
  /\ t.pc = at
  /\ last'.at = at
  /\ CopiesIn(t, tasks') < CopiesIn(t, tasks)

\* The step just taken ended handler t: its function returned.
Returned(t) ==
  /\ CopiesIn(t, tasks') < CopiesIn(t, tasks)
  /\ BagCardinality(tasks') < BagCardinality(tasks)

\* C1: starting from an inventory with at most one Running VM, the hypervisor
\* never has two VMs Running at the same time, whatever the interleaving of
\* the launch requests.
C1_AtMostOneRunning == Cardinality(RunningVms) <= 1

\* C2: at any instant at most one launch invocation is between its commit
\* (in_progress set) and its reset (in_progress cleared).
C2_OneCommittedLaunch == FlowsAt(LaunchCommittedPcs) <= 1

\* C3, as stated: whenever a launch or shutdown invocation has just returned,
\* with any response or error, the coordinator's in_progress is false and the
\* launch coordinator's requested_action is None.
C3_AsStated ==
  /\ (last.ret # NoResult /\ last.at \in {"l_entry", "l_list", "l_reset"})
       => launch_state = [in_progress |-> FALSE, requested_action |-> None]
  /\ (last.ret # NoResult /\ last.at \in {"s_entry", "s_list", "s_reset"})
       => shutdown_state = [in_progress |-> FALSE]

\* C3, amended: whenever an invocation that committed has just returned (from
\* its third lock section, with Started or the flow's error), the
\* coordinator's in_progress is false and the launch coordinator's
\* requested_action is None.
C3_NoLeakedState ==
  /\ last.at = "l_reset"
       => /\ last.ret # NoResult
          /\ launch_state = [in_progress |-> FALSE, requested_action |-> None]
  /\ last.at = "s_reset"
       => /\ last.ret # NoResult
          /\ shutdown_state = [in_progress |-> FALSE]

\* C3: a committed launch flow has just returned a hypervisor error.
C3_Witness ==
  /\ last.at = "l_reset"
  /\ last.ret.http = BAD_GATEWAY
  /\ ~launch_state.in_progress

\* C4: a flow that was draining with Shutdown or Hibernate when a Terminate
\* request was accepted goes on to terminate_vm at its next read of
\* requested_action, which follows its next status read that is not Stopped.
C4_EscalationReachesFlow ==
  [][\A t \in Live :
       (t.owed /\ Took(t, "l_reread"))
         => Becomes(t, [t EXCEPT !.pc = "l_escalate", !.owed = FALSE])]_vars

\* C5: from the moment an escalation request wrote requested_action =
\* Terminate and returned Updated until the draining flow reads it (or stops
\* waiting), requested_action is Terminate.
C5_NoLostEscalation ==
  \A t \in Live : t.owed => launch_state.requested_action = "Terminate"

\* C6: the step in which a committed launch or shutdown flow returns, on
\* whatever path it got there, leaves in_progress false and (launch)
\* requested_action None; a committed flow whose call failed or timed out has
\* that step left to take.
C6_ClearedOnEveryExit ==
  [][\A t \in Live :
       /\ (t.pc \in LaunchCommittedPcs /\ Returned(t))
            => launch_state' = [in_progress |-> FALSE, requested_action |-> None]
       /\ (t.pc \in ShutdownCommittedPcs /\ Returned(t))
            => shutdown_state' = [in_progress |-> FALSE]
       /\ (t.pc \in LaunchCommittedPcs \cup ShutdownCommittedPcs
             /\ t.outcome # << >>)
            => t.pc \in {"l_reset", "s_reset"}]_vars

\* C6: a shutdown flow timed out waiting for the VM and has returned.
C6_Witness ==
  /\ last.at = "s_reset"
  /\ last.ret.err # << >>
  /\ last.ret.err[1].kind = "ShutdownFailed"
  /\ ~shutdown_state.in_progress

\* C7: a launch request with action Terminate that enters while in_progress
\* is true sets requested_action = Terminate, leaves in_progress true, issues
\* no hypervisor call and returns Updated.
C7_TerminateQueuesEscalation ==
  [][\A target_vmid \in VmIds :
       (/\ launch_state.in_progress
        /\ last'.at = "l_entry"
        /\ launch_entry(target_vmid, "Terminate"))
         => /\ launch_state'.requested_action = "Terminate"
            /\ launch_state'.in_progress
            /\ last'.call = NoCall
            /\ last'.ret = HttpOk(LaunchResponse_updated)
            /\ UNCHANGED <<status, pending>>]_vars

\* C7: an escalation was accepted while a flow was draining with Shutdown or
\* Hibernate.
C7_Witness ==
  /\ last.at = "l_entry"
  /\ last.ret.ok = <<LaunchResponse_updated>>
  /\ launch_state = [in_progress |-> TRUE, requested_action |-> "Terminate"]
  /\ \E t \in Live : t.owed /\ t.current_action \in {"Shutdown", "Hibernate"}

\* C8: a launch request with no action, Shutdown, Hibernate or Cancel that
\* enters while in_progress is true fails with InProgress, HTTP 409, changes
\* neither the coordinator state nor any flow, and issues no hypervisor call.
C8_OthersRejected ==
  [][\A target_vmid \in VmIds, action \in OptAction \ {"Terminate"} :
       (/\ launch_state.in_progress
        /\ last'.at = "l_entry"
        /\ launch_entry(target_vmid, action))
         => /\ last'.ret.err = <<Err_InProgress>>
            /\ last'.ret.ok = << >>
            /\ last'.ret.http = CONFLICT
            /\ last'.call = NoCall
            /\ UNCHANGED <<launch_state, tasks, status, pending>>]_vars

\* C8: a request was rejected with 409 while a flow was waiting for a VM.
C8_Witness ==
  /\ last.at = "l_entry"
  /\ last.ret.http = CONFLICT
  /\ last.ret.err = <<Err_InProgress>>
  /\ launch_state.in_progress
  /\ \E t \in Live : t.pc = "l_poll"

\* C9: a launch that passed the idle check and whose listing shows the target
\* as the running VM returns AlreadyRunning whatever its action, issues no
\* mutating call and never commits.
C9_AlreadyRunning ==
  [][\A t \in Live :
       (/\ Took(t, "l_list")
        /\ last'.ret.err = << >>
        /\ FindRunning(list_vms) # NoVm
        /\ FindRunning(list_vms)[1].vmid = t.target_vmid)
         => /\ last'.ret = HttpOk(LaunchResponse_already_running)
            /\ last'.call.op \notin Mutations
            /\ Ends(t)
            /\ UNCHANGED <<launch_state, status, pending>>]_vars

\* C9: AlreadyRunning was just returned and the target is running.
C9_Witness ==
  /\ last.at = "l_list"
  /\ last.ret.ok = <<LaunchResponse_already_running>>
  /\ RunningVms # {}
  /\ ~launch_state.in_progress

\* The listing shows a running VM other than the target that carries the
\* easy-kill tag in some spelling of upper and lower case.
EasyKillDisplaced(t) ==
  /\ FindRunning(list_vms) # NoVm
  /\ FindRunning(list_vms)[1].vmid # t.target_vmid
  /\ \E i \in 1..Len(FindRunning(list_vms)[1].tags) :
       eq_ignore_ascii_case(FindRunning(list_vms)[1].tags[i], EasyKillTag)

\* C10, as stated: a launch with no action that finds an easy-kill VM running
\* commits with Terminate, sends terminate_vm to that VM, waits until it is
\* observed Stopped, sends start_vm to the target and returns Started, the
\* displaced VM then Stopped and the target Running.
C10_AsStated ==
  [][\A t \in Live :
       /\ (Took(t, "l_list") /\ t.action = None /\ EasyKillDisplaced(t))
            => Becomes(t, [t EXCEPT !.pc = "l_commit",
                                    !.running_vm = FindRunning(list_vms),
                                    !.action = "Terminate",
                                    !.auto_selected = TRUE])
       /\ (Took(t, "l_act") /\ t.auto_selected)
            => /\ last'.call = Call("terminate_vm", t.running_vm[1].vmid)
               /\ Becomes(t, [t EXCEPT !.pc = "l_poll"])
       /\ (Took(t, "l_start") /\ t.auto_selected)
            => /\ last'.call = Call("start_vm", t.target_vmid)
               /\ status'[t.running_vm[1].vmid] = "Stopped"
               /\ status'[t.target_vmid] = "Running"
       /\ (Took(t, "l_reset") /\ t.auto_selected)
            => last'.ret = HttpOk(LaunchResponse_started)]_vars

\* C10, amended: a launch with no action whose listing is answered and shows
\* an easy-kill VM running commits with Terminate; it sends terminate_vm to
\* that VM, never a second action; it goes on to start_vm(target) only from a
\* status read taken while that VM is Stopped; a start_vm that is accepted
\* leaves the target Running; and it returns Started exactly when no call of
\* the flow failed, 502 otherwise.
C10_EasyKillAutoTerminate ==
  [][\A t \in Live :
       /\ (/\ Took(t, "l_list")
           /\ t.action = None
           /\ last'.ret.err = << >>
           /\ EasyKillDisplaced(t))
            => /\ last'.ret = NoResult
               /\ Becomes(t, [t EXCEPT !.pc = "l_commit",
                                       !.running_vm = FindRunning(list_vms),
                                       !.action = "Terminate",
                                       !.auto_selected = TRUE])
       /\ (Took(t, "l_commit") /\ t.auto_selected)
            => /\ launch_state' =
                    [in_progress |-> TRUE, requested_action |-> "Terminate"]
               /\ Becomes(t, [t EXCEPT !.pc = "l_act",
                                       !.current_action = "Terminate"])
       /\ (Took(t, "l_act") /\ t.auto_selected)
            => last'.call = Call("terminate_vm", t.running_vm[1].vmid)
       /\ (Took(t, "l_reread") /\ t.auto_selected)
            => Becomes(t, [t EXCEPT !.pc = "l_poll", !.owed = FALSE])
       /\ (/\ Took(t, "l_poll")
           /\ t.auto_selected
           /\ \E u \in BagToSet(tasks') :
                u.pc = "l_start" /\ CopiesIn(u, tasks) < CopiesIn(u, tasks'))
            => status[t.running_vm[1].vmid] = "Stopped"
       /\ (Took(t, "l_start") /\ t.auto_selected)
            => /\ last'.call = Call("start_vm", t.target_vmid)
               /\ Becomes(t, Finishing(t, "l_reset", OkOutcome))
                    => status'[t.target_vmid] = "Running"
       /\ (Took(t, "l_reset") /\ t.auto_selected)
            => /\ t.outcome = <<OkOutcome>>
                    <=> last'.ret = HttpOk(LaunchResponse_started)
               /\ t.outcome # <<OkOutcome>> => last'.ret.http = BAD_GATEWAY]_vars

\* C10: the flow of a launch with no action has terminated the easy-kill VM,
\* which is Stopped, and started the target, which is Running.
C10_Witness ==
  \E t \in Live :
    /\ t.auto_selected
    /\ t.pc = "l_reset"
    /\ t.outcome = <<OkOutcome>>
    /\ RunningVms = {200}
    /\ ~pending[100]

\* The listing shows a running VM other than the target that carries no tag
\* equal to easy-kill in any spelling of upper and lower case.
PlainDisplaced(t) ==
  /\ FindRunning(list_vms) # NoVm
  /\ FindRunning(list_vms)[1].vmid # t.target_vmid
  /\ \A i \in 1..Len(FindRunning(list_vms)[1].tags) :
       ~eq_ignore_ascii_case(FindRunning(list_vms)[1].tags[i], EasyKillTag)

\* C11: a launch with no action whose listing shows a running VM other than
\* the target without the easy-kill tag returns NeedsAction with that VM's
\* vmid and name and the actions Shutdown, Hibernate, Terminate, Cancel in
\* that order, issues no mutating call and leaves LaunchState as it is; every
\* other launch response carries no running_vm and no allowed_actions.
C11_NeedsAction ==
  [][/\ \A t \in Live :
          (/\ Took(t, "l_list")
           /\ t.action = None
           /\ last'.ret.err = << >>
           /\ PlainDisplaced(t))
            => /\ last'.ret.http = OK
               /\ last'.ret.ok # << >>
               /\ last'.ret.ok[1].status = "NeedsAction"
               /\ last'.ret.ok[1].running_vm =
                    <<[vmid |-> FindRunning(list_vms)[1].vmid,
                       name |-> FindRunning(list_vms)[1].name]>>
               /\ last'.ret.ok[1].allowed_actions =
                    <<"Shutdown", "Hibernate", "Terminate", "Cancel">>
               /\ last'.call.op \notin Mutations
               /\ Ends(t)
               /\ UNCHANGED <<launch_state, status, pending>>
     /\ (/\ last'.at \in {"l_entry", "l_list", "l_reset"}
         /\ last'.ret.ok # << >>
         /\ last'.ret.ok[1].status # "NeedsAction")
          => /\ last'.ret.ok[1].running_vm = << >>
             /\ last'.ret.ok[1].allowed_actions = << >>]_vars

\* C11: NeedsAction was just returned for the running VM 200, which has no
\* easy-kill tag.
C11_Witness ==
  /\ last.at = "l_list"
  /\ last.ret.ok # << >>
  /\ last.ret.ok[1].status = "NeedsAction"
  /\ last.ret.ok[1].running_vm = <<[vmid |-> 200, name |-> "work"]>>
  /\ status[200] = "Running"

\* C12: a launch with action Cancel whose listing shows no running VM, or one
\* that is not the target, returns Cancelled, issues no mutating call, never
\* commits and leaves in_progress and requested_action as they are.
C12_Cancelled ==
  [][\A t \in Live :
       (/\ Took(t, "l_list")
        /\ t.action = "Cancel"
        /\ last'.ret.err = << >>
        /\ \/ FindRunning(list_vms) = NoVm
           \/ FindRunning(list_vms)[1].vmid # t.target_vmid)
         => /\ last'.ret = HttpOk(LaunchResponse_cancelled)
            /\ last'.call.op \notin Mutations
            /\ Ends(t)
            /\ UNCHANGED <<launch_state, status, pending>>]_vars

\* C12: Cancelled was just returned while no VM is running, the coordinator
\* idle.
C12_Witness ==
  /\ last.at = "l_list"
  /\ last.ret.ok = <<LaunchResponse_cancelled>>
  /\ RunningVms = {}
  /\ launch_state = [in_progress |-> FALSE, requested_action |-> None]

\* The step just taken put a handler in the situation u.
Appears(u) == CopiesIn(u, tasks) < CopiesIn(u, tasks')

\* C13: a launch flow that displaces a VM gets to start_vm only from a status
\* read of that VM taken while it is Stopped, the only state in which the read
\* answers Stopped (a VM that is Running answers Running or Unknown);
\* start_vm is sent by no other step; and the flow's first status read comes
\* after its first action was sent to that VM.
C13_StartOnlyAfterStopped ==
  [][/\ \A u \in BagToSet(tasks') :
          /\ (Appears(u) /\ u.pc = "l_start" /\ u.running_vm # NoVm)
               => /\ last'.at = "l_poll"
                  /\ last'.call = Call("vm_status", u.running_vm[1].vmid)
                  /\ status[u.running_vm[1].vmid] = "Stopped"
          /\ (Appears(u) /\ u.pc = "l_poll" /\ last'.at # "l_entry")
               => \/ /\ last'.at = "l_act"
                     /\ last'.call = Call(ActionCall(u.current_action),
                                          u.running_vm[1].vmid)
                     /\ last'.call.op \in Mutations
                  \/ last'.at \in {"l_reread", "l_escalate"}
          /\ (Appears(u) /\ u.pc = "l_reread" /\ last'.at # "l_entry")
               => last'.at = "l_poll"
          /\ (Appears(u) /\ u.pc = "l_act") => last'.at = "l_commit"
     /\ \A t \in Live :
          (Took(t, "l_poll") /\ status[t.running_vm[1].vmid] # "Stopped")
            => \E u \in BagToSet(tasks') :
                 Appears(u) /\ u.pc \in {"l_reread", "l_reset"}
     /\ last'.call.op = "start_vm" => last'.at = "l_start"]_vars

\* C13: a flow read the status of the displaced VM while that VM was on its
\* way down, and went on waiting.
C13_Witness ==
  /\ last.at = "l_poll"
  /\ \E t \in Live :
       /\ t.pc = "l_reread"
       /\ pending[t.running_vm[1].vmid]
       /\ status[t.running_vm[1].vmid] = "Running"

\* C14: the host power-off command is dispatched only by a shutdown flow whose
\* listing showed no running VM, at its commit, or by the final status read of
\* the drained VM taken while that VM is Stopped; a final read of a VM that is
\* not Stopped dispatches nothing and, when it is answered, fails the flow
\* with ShutdownFailed naming the vmid, which the invocation returns.
C14_PowerOffOnlyWhenStopped ==
  [][/\ last'.poweroff
          => \E t \in Live :
               \/ Took(t, "s_commit") /\ t.running_vm = NoVm
               \/ /\ Took(t, "s_final")
                  /\ status[t.running_vm[1].vmid] = "Stopped"
     /\ \A t \in Live :
          /\ (Took(t, "s_final") /\ status[t.running_vm[1].vmid] # "Stopped")
               => /\ ~last'.poweroff
                  /\ \E u \in BagToSet(tasks') :
                       /\ Appears(u)
                       /\ u.pc = "s_reset"
                       /\ \/ u.outcome[1].kind = "Proxmox"
                          \/ u.outcome =
                               <<[kind |-> "ShutdownFailed",
                                  detail |->
                                    <<"Timed out waiting for VM ",
                                      ToString(t.running_vm[1].vmid),
                                      " to stop">>]>>
          /\ (Took(t, "s_reset") /\ t.outcome[1].kind = "ShutdownFailed")
               => /\ last'.ret.err = t.outcome
                  /\ last'.ret.ok = << >>
                  /\ last'.ret.error = t.outcome[1].detail
                  /\ ~last'.poweroff]_vars

\* C14: the final status read found the drained VM still Running: the flow
\* has failed with ShutdownFailed and nothing was dispatched.
C14_Witness ==
  /\ last.at = "s_final"
  /\ ~last.poweroff
  /\ \E t \in Live :
       /\ t.pc = "s_reset"
       /\ t.outcome[1].kind = "ShutdownFailed"
  /\ RunningVms # {}

\* C15: at any instant at most one shutdown invocation is between its commit
\* (in_progress set) and its reset (in_progress cleared), so that no two
\* overlapping flows get to dispatch the power-off command.
C15_OneCommittedShutdown == FlowsAt(ShutdownCommittedPcs) <= 1

\* C16: a shutdown request that passed the idle check and whose listing is
\* answered returns NeedsAction, with the running VM and the four actions,
\* when a VM is running and it has no action; returns Cancelled when its
\* action is Cancel, a VM running or not; both without a mutating call or a
\* change of state; in every other case it goes on to commit, which sets
\* in_progress and enters the flow.
C16_ShutdownDecision ==
  [][\A t \in Live :
       /\ (Took(t, "s_list") /\ last'.ret.err = << >>)
            => IF FindRunning(list_vms) # NoVm /\ t.action = None
               THEN /\ last'.ret.http = OK
                    /\ last'.ret.ok # << >>
                    /\ last'.ret.ok[1].status = "NeedsAction"
                    /\ last'.ret.ok[1].running_vm =
                         <<[vmid |-> FindRunning(list_vms)[1].vmid,
                            name |-> FindRunning(list_vms)[1].name]>>
                    /\ last'.ret.ok[1].allowed_actions =
                         <<"Shutdown", "Hibernate", "Terminate", "Cancel">>
                    /\ last'.call.op \notin Mutations
                    /\ Ends(t)
                    /\ UNCHANGED <<shutdown_state, launch_state, status,
                                   pending>>
               ELSE IF t.action = "Cancel"
               THEN /\ last'.ret.http = OK
                    /\ last'.ret.ok # << >>
                    /\ last'.ret.ok[1].status = "Cancelled"
                    /\ last'.ret.ok[1].running_vm = << >>
                    /\ last'.ret.ok[1].allowed_actions = << >>
                    /\ last'.call.op \notin Mutations
                    /\ Ends(t)
                    /\ UNCHANGED <<shutdown_state, launch_state, status,
                                   pending>>
               ELSE /\ last'.ret = NoResult
                    /\ Becomes(t, [t EXCEPT !.pc = "s_commit",
                                            !.running_vm =
                                               FindRunning(list_vms)])
       /\ Took(t, "s_commit")
            => /\ shutdown_state'.in_progress
               /\ \E u \in BagToSet(tasks') :
                    /\ Appears(u)
                    /\ u.pc = IF t.running_vm # NoVm THEN "s_act"
                              ELSE "s_reset"]_vars

\* C16: a shutdown request with no action found no VM running and has
\* committed.
C16_Witness ==
  /\ last.at = "s_commit"
  /\ last.poweroff
  /\ shutdown_state.in_progress
  /\ RunningVms = {}
  /\ \E t \in Live : t.pc = "s_reset" /\ t.outcome = <<OkOutcome>>

\* C17: in a watchdog poll, the recheck is reached only from a first listing
\* that shows no Running VM; start_vm is reached only from a second listing
\* that shows no Running VM and holds a VM whose name is exactly the
\* configured name, and is sent to that VM's vmid; the watchdog sends no
\* other mutating call.
C17_FallbackDampener ==
  [][/\ \A u \in BagToSet(tasks') :
          /\ (Appears(u) /\ u.pc = "f_recheck")
               => /\ last'.at = "f_list1"
                  /\ last'.call = Call("list_vms", 0)
                  /\ RunningVms = {}
          /\ (Appears(u) /\ u.pc = "f_start")
               => /\ last'.at = "f_recheck"
                  /\ last'.call = Call("list_vms", 0)
                  /\ RunningVms = {}
                  /\ \E i \in 1..Len(Inventory) :
                       /\ Inventory[i].name = u.fallback_name
                       /\ Inventory[i].vmid = u.vmid
     /\ \A t \in Live :
          /\ (Took(t, "f_recheck")
                /\ \/ RunningVms # {}
                   \/ \A i \in 1..Len(Inventory) :
                        Inventory[i].name # t.fallback_name)
               => Becomes(t, [t EXCEPT !.pc = "f_idle"])
          /\ (Took(t, "f_list1") /\ RunningVms # {})
               => Becomes(t, [t EXCEPT !.pc = "f_idle"])
          /\ Took(t, "f_start") => last'.call = Call("start_vm", t.vmid)
     /\ last'.call.op \in Mutations => last'.at = "f_start"
     /\ last'.at \in {"f_idle", "f_list1", "f_recheck", "f_start"}
          => \E t \in Live : Took(t, last'.at)]_vars

\* C17: the watchdog configured with "work" has just started VM 200 after
\* two listings without a running VM.
C17_Witness ==
  /\ last.at = "f_start"
  /\ last.call = Call("start_vm", 200)
  /\ status[200] = "Running"
  /\ \E t \in Live : t.fallback_name = "work" /\ t.pc = "f_idle"

\* C18: every listing of wait_for_vm is one of at most 30 (the attempt counter
\* stays within 1..30 and each listing that does not end the wait raises it);
\* a listing that holds the new vmid ends the handler with 200 and
\* created(new vmid); the 30th listing without it ends the handler with the
\* Api error "Timed out waiting for VM <vmid> to appear" as 502; a failed
\* listing ends the handler at once with that listing's error.
C18_ForkWait ==
  [][\A t \in Live :
       Took(t, "k_wait") =>
         /\ t.attempt \in 1..ForkPollAttempts
         /\ last'.call = Call("list_vms", 0)
         /\ \/ /\ Returned(t)
               /\ t.new_vmid \in DOMAIN status
               /\ last'.ret = HttpOk(ForkResponse_created(t.new_vmid))
            \/ /\ Returned(t)
               /\ t.new_vmid \notin DOMAIN status
               /\ t.attempt = ForkPollAttempts
               /\ last'.ret.http = BAD_GATEWAY
               /\ last'.ret.err =
                    <<[kind |-> "Api",
                       message |-> <<"Timed out waiting for VM ",
                                     ToString(t.new_vmid), " to appear">>]>>
            \/ /\ Returned(t)
               /\ last'.ret.http = BAD_GATEWAY
               /\ last'.ret.err # << >>
               /\ last'.ret.err[1] \in UpstreamErrors
               /\ last'.ret.error = last'.ret.err[1]
            \/ /\ Becomes(t, [t EXCEPT !.attempt = t.attempt + 1])
               /\ t.new_vmid \notin DOMAIN status
               /\ t.attempt < ForkPollAttempts
               /\ last'.ret = NoResult]_vars

\* C18: the wait has just timed out on its 30th listing.
C18_Witness ==
  /\ last.at = "k_wait"
  /\ last.ret.http = BAD_GATEWAY
  /\ last.ret.err = <<Err_ForkTimedOut(101)>>
  /\ tasks = EmptyBag

\* C19: a handler answers InProgress of either coordinator with 409, every
\* ProxmoxError (Api, MissingNode, Reqwest, Serde) with 502, ShutdownFailed
\* with 502 and every successful response with 200 and that response.
C19_StatusMapping ==
  [][\A t \in Live :
       (\E at \in {"m_launch", "m_shutdown", "m_fork"} : Took(t, at)) =>
         IF t.result.err = << >>
         THEN /\ last'.ret.http = 200
              /\ last'.ret.ok = t.result.ok
         ELSE /\ last'.ret.ok = << >>
              /\ last'.ret.http =
                   CASE t.result.err[1].kind = "InProgress" -> 409
                     [] t.result.err[1].kind = "ShutdownFailed" -> 502
                     [] t.result.err[1].kind = "Proxmox" -> 502
                     [] t.result.err[1].kind \in ProxmoxError -> 502]_vars

\* C19: host_shutdown has just answered a failed drain with 502.
C19_Witness ==
  /\ last.at = "m_shutdown"
  /\ last.ret.http = 502
  /\ last.ret.err = <<Err_ShutdownFailed(100)>>

\* The positions that bound the pieces of str: before its first character,
\* each separator, after its last character.
PieceBounds(str) ==
  {0, Len(str) + 1} \cup {i \in 1..Len(str) : str[i] \in {";", ","}}

\* The positions of the piece that starts after bound b that hold neither a
\* separator nor white space.
PieceInk(str, b) ==
  {i \in (b + 1)..Len(str) :
     /\ str[i] \notin {" ", "\t"}
     /\ \A j \in (b + 1)..i : str[j] \notin {";", ","}}

\* C20: the tags parse_tags returns are, in input order, the pieces between
\* the separators ';' and ',' that hold a character other than white space,
\* each cut down to the span from its first to its last such character; no tag
\* is empty or only white space; a missing or all-white-space input gives the
\* empty list.
C20_ParseTags ==
  \A t \in Live :
    t.pc = "p_tags" =>
      LET str == IF t.raw = << >> THEN << >> ELSE t.raw[1]
          kept == {b \in PieceBounds(str) : PieceInk(str, b) # {}}
          lo(b) == CHOOSE i \in PieceInk(str, b) :
                     \A j \in PieceInk(str, b) : i <= j
          hi(b) == CHOOSE i \in PieceInk(str, b) :
                     \A j \in PieceInk(str, b) : j <= i
      IN  /\ Len(t.tags) = Cardinality(kept)
          /\ \A b \in kept :
               t.tags[1 + Cardinality({c \in kept : c < b})]
                 = SubSeq(str, lo(b), hi(b))
          /\ \A k \in 1..Len(t.tags) :
               \E i \in 1..Len(t.tags[k]) : t.tags[k][i] \notin {" ", "\t"}
          /\ (\A i \in 1..Len(str) : str[i] \in {" ", "\t"})
               => t.tags = << >>

\* C20: "a, b" has been parsed into the tags "a" and "b".
C20_Witness ==
  \E t \in Live :
    /\ t.pc = "p_tags"
    /\ t.raw = << <<"a", ",", " ", "b">> >>
    /\ t.tags = << <<"a">>, <<"b">> >>

\* The string str spells the lower-case word w, letter by letter, each letter
\* in either case.
Spells(str, w) ==
  /\ Len(str) = Len(w)
  /\ \A i \in 1..Len(w) :
       \/ str[i] = w[i]
       \/ \E k \in 1..26 : LowerCase[k] = w[i] /\ UpperCase[k] = str[i]

\* C21: normalize answers Running exactly for the inputs that spell "running"
\* in any mix of cases, Stopped exactly for those that spell "stopped", and
\* Unknown for every other input, a missing one included.
C21_Normalize ==
  \A t \in Live :
    t.pc = "n_status" =>
      LET str == IF t.raw = << >> THEN << >> ELSE t.raw[1]
      IN  /\ t.status \in {"Running", "Stopped", "Unknown"}
          /\ t.status = "Running"
               <=> (t.raw # << >> /\ Spells(str, <<"r", "u", "n", "n", "i", "n", "g">>))
          /\ t.status = "Stopped"
               <=> (t.raw # << >> /\ Spells(str, <<"s", "t", "o", "p", "p", "e", "d">>))
          /\ t.raw = << >> => t.status = "Unknown"

\* C21: "RUNning" has been normalized to Running.
C21_Witness ==
  \E t \in Live :
    /\ t.pc = "n_status"
    /\ t.raw = << <<"R", "U", "N", "n", "i", "n", "g">> >>
    /\ t.status = "Running"

\* C22: a handler that waits for list_vms, vm_status, a VM action, start_vm or
\* the sleep holds no guard; each mutex has at most one guard, and whoever
\* holds it is inside a lock section, which ends without waiting for
\* anything.
C22_NoGuardAcrossAwait ==
  /\ \A t \in Live : t.pc \in AwaitPcs => t.guard = "none"
  /\ \A t \in Live :
       t.guard # "none" =>
         /\ tasks[t] = 1
         /\ \A u \in Live \ {t} : u.guard # t.guard
         /\ \E p \in LockPoints : p.sect = t.pc /\ p.mutex = t.guard

\* C22: a launch flow waits for a status read of the displaced VM while
\* another launch request holds the launch mutex.
C22_Witness ==
  /\ \E t \in Live : t.pc = "la_poll" /\ t.guard = "none"
  /\ \E u \in Live : u.pc = "la_sect1" /\ u.guard = "launch"

\* C23: in every state, with launch requests racing at the grain of the
\* mutex, requested_action is Some only if in_progress is true; and a step
\* that clears in_progress is the third section of a handler that holds the
\* launch guard, clears requested_action in the same step and returns.
C23_LaunchStateInvariant ==
  [][/\ launch_state.requested_action # None => launch_state.in_progress
     /\ launch_state'.requested_action # None => launch_state'.in_progress
     /\ (launch_state.in_progress /\ ~launch_state'.in_progress)
          => /\ launch_state' = LaunchState_default
             /\ \E t \in Live :
                  /\ t.pc = "la_sect3"
                  /\ t.guard = "launch"
                  /\ Returned(t)]_vars

\* C23: a flow has cleared the state while a second flow, committed in a
\* race with it, still waits for the displaced VM.
C23_Witness ==
  /\ launch_state = LaunchState_default
  /\ \E t \in Live : t.pc = "la_poll" /\ t.current_action = "Shutdown"

\* C24: an answered GET /api/vms is 200 with one entry per record of the
\* listing, in order, each with the record's vmid, name, tags and notes as
\* client.list_vms built them (the name empty when missing, the tags parsed,
\* the notes absent when the description is missing or blank) and the status
\* "running", "stopped" or "unknown" as the record's status normalizes; a
\* failed listing is 502; the step calls list_vms only and leaves the
\* hypervisor and both coordinator states as they are.
C24_ListVms ==
  [][\A t \in Live :
       Took(t, "v_list") =>
         /\ last'.call = Call("list_vms", 0)
         /\ UNCHANGED <<status, pending, launch_state, shutdown_state>>
         /\ \/ /\ last'.ret.http = 502
               /\ last'.ret.ok = << >>
            \/ /\ last'.ret.http = 200
               /\ Len(last'.ret.ok[1]) = Len(t.resources)
               /\ \A i \in 1..Len(t.resources) :
                    LET entry == last'.ret.ok[1][i]
                        record == t.resources[i]
                    IN  /\ entry.vmid = record.vmid
                        /\ entry.name = IF record.name = << >> THEN ""
                                        ELSE record.name[1]
                        /\ entry.tags = parse_tags(record.tags)
                        /\ entry.notes =
                             IF record.description = << >>
                                \/ \A k \in 1..Len(record.description[1]) :
                                     record.description[1][k] \in {" ", "\t"}
                             THEN << >> ELSE record.description
                        /\ entry.status =
                             CASE normalize(record.status) = "Running"
                                    -> "running"
                               [] normalize(record.status) = "Stopped"
                                    -> "stopped"
                               [] normalize(record.status) = "Unknown"
                                    -> "unknown"]_vars

\* C24: a listing of two records has been answered, the first running with
\* two tags and notes, the second without a status.
C24_Witness ==
  /\ last.at = "v_list"
  /\ last.ret.http = 200
  /\ Len(last.ret.ok[1]) = 2
  /\ last.ret.ok[1][1] =
       [vmid |-> 101, name |-> "alpha", tags |-> << <<"a">>, <<"b">> >>,
        status |-> "running", notes |-> << <<"a", " ", "b", " ">> >>]
  /\ last.ret.ok[1][2].status = "unknown"

\* C25: a committed launch flow is changed by no step but its own, except
\* that an accepted Terminate request marks it for escalation; a request that
\* finds the flow in progress changes the coordinator state at most by
\* requested_action = Terminate; the flow's own steps keep it in the flow
\* until it returns from the third lock section, with Started after a
\* start_vm(target) that was accepted, or with a hypervisor error.
C25_NoAbort ==
  [][/\ \A t \in Live :
          t.pc \in LaunchCommittedPcs =>
            /\ (CopiesIn(t, tasks') < CopiesIn(t, tasks) /\ last'.at # t.pc)
                 => /\ last'.at = "l_entry"
                    /\ last'.ret = HttpOk(LaunchResponse_updated)
                    /\ launch_state'.requested_action = "Terminate"
                    /\ t.current_action \in {"Shutdown", "Hibernate"}
                    /\ Appears([t EXCEPT !.owed = TRUE])
            /\ (Took(t, t.pc) /\ ~Returned(t))
                 => \E u \in BagToSet(tasks') :
                      Appears(u) /\ u.pc \in LaunchCommittedPcs
            /\ Returned(t)
                 => /\ t.pc = "l_reset"
                    /\ last'.at = "l_reset"
                    /\ \/ /\ t.outcome = <<OkOutcome>>
                          /\ last'.ret = HttpOk(LaunchResponse_started)
                       \/ /\ t.outcome[1].kind = "Proxmox"
                          /\ last'.ret.http = 502
                          /\ last'.ret.err = t.outcome
     /\ \A u \in BagToSet(tasks') :
          (Appears(u) /\ u.pc = "l_reset" /\ u.outcome = <<OkOutcome>>)
            => /\ last'.at = "l_start"
               /\ \E t \in Live :
                    /\ Took(t, "l_start")
                    /\ last'.call = Call("start_vm", t.target_vmid)
                    /\ status'[t.target_vmid] = "Running"
     /\ (last'.at = "l_entry" /\ launch_state.in_progress)
          => \/ launch_state' = launch_state
             \/ launch_state' = [launch_state EXCEPT
                                   !.requested_action = "Terminate"]]_vars

\* C25: a request was rejected with InProgress while a committed flow waits
\* for the displaced VM, and the flow is still there.
C25_Witness ==
  /\ last.at = "l_entry"
  /\ last.ret.err = <<Err_InProgress>>
  /\ launch_state.in_progress
  /\ \E t \in Live : t.pc = "l_poll" /\ t.current_action = "Shutdown"

\* C26 as stated: the outcome of every shutdown flow is decided by the final
\* status read, after the reads of the drain loop.
C26_AsStated ==
  [][\A u \in BagToSet(tasks') :
       (Appears(u) /\ u.pc = "s_reset") => last'.at = "s_final"]_vars

\* The shutdown flow with a running VM, step by step: a read of the drain
\* loop is one of attempts 1..60; it goes to the next attempt only if the VM
\* is not Stopped and attempts are left, leaves the loop for the final read
\* if the VM is Stopped or the attempt was the 60th, or ends the flow with
\* the error of the read; the final read comes from the loop only, is one
\* read, and decides: power-off and Ok if the VM is Stopped, ShutdownFailed
\* if it is not, the read's error if it failed.
C26_DrainSteps ==
  /\ \A t \in Live :
       Took(t, "s_poll") =>
         /\ t.attempt \in 1..60
         /\ last'.call = Call("vm_status", t.running_vm[1].vmid)
         /\ \/ /\ Becomes(t, [t EXCEPT !.attempt = t.attempt + 1])
               /\ t.attempt < 60
               /\ status[t.running_vm[1].vmid] # "Stopped"
            \/ /\ Becomes(t, [t EXCEPT !.pc = "s_final", !.attempt = 0])
               /\ \/ status[t.running_vm[1].vmid] = "Stopped"
                  \/ t.attempt = 60
            \/ \E u \in BagToSet(tasks') :
                 /\ Becomes(t, u)
                 /\ u.pc = "s_reset"
                 /\ u.outcome[1].kind = "Proxmox"
  /\ \A t \in Live :
       Took(t, "s_final") =>
         /\ last'.call = Call("vm_status", t.running_vm[1].vmid)
         /\ \E u \in BagToSet(tasks') :
              /\ Becomes(t, u)
              /\ u.pc = "s_reset"
              /\ \/ /\ u.outcome = <<OkOutcome>>
                    /\ status[t.running_vm[1].vmid] = "Stopped"
                    /\ last'.poweroff
                 \/ /\ u.outcome = <<Err_ShutdownFailed(t.running_vm[1].vmid)>>
                    /\ status[t.running_vm[1].vmid] # "Stopped"
                    /\ ~last'.poweroff
                 \/ /\ u.outcome[1].kind = "Proxmox"
                    /\ ~last'.poweroff
  /\ \A u \in BagToSet(tasks') :
       (Appears(u) /\ u.pc = "s_final") => last'.at = "s_poll"

\* C26: a shutdown flow reads the status of its VM at most 60 times in the
\* drain loop, leaves the loop at the first read that is Stopped, then reads
\* once more, and that read alone decides between power-off and
\* ShutdownFailed, unless a call fails, which ends the flow with that error;
\* and every committed shutdown flow returns.
C26_ShutdownTerminates ==
  /\ [][C26_DrainSteps]_vars
  /\ (FlowsAt(ShutdownCommittedPcs) > 0) ~> (FlowsAt(ShutdownCommittedPcs) = 0)

\* C26: the flow timed out: its 60th read of the loop was not Stopped, nor
\* was the final read.
C26_Witness ==
  /\ last.at = "s_final"
  /\ ~last.poweroff
  /\ \E t \in Live :
       /\ t.pc = "s_reset"
       /\ t.outcome # << >>
       /\ t.outcome[1].kind = "ShutdownFailed"

\* The places of run_flow from the first action on the displaced VM to the
\* end of the wait for it.
LaunchDrainPcs == {"l_act", "l_poll", "l_reread", "l_escalate"}

\* C27: while a committed launch flow waits for its displaced VM, which has
\* not reported Stopped to it, and none of its calls has failed, in_progress
\* is true (so that a later request is rejected, or accepted as an
\* escalation).
C27_PinnedWhileDraining ==
  \A t \in Live : t.pc \in LaunchDrainPcs => launch_state.in_progress

\* A call of a committed launch flow has failed.
LaunchCallFailed ==
  \E t \in Live : t.outcome # << >> /\ t.outcome[1].kind = "Proxmox"

\* C28: under fair scheduling, with a displaced VM that stops once it is told
\* to, a committed launch flow gets to send start_vm, and to return Started
\* with in_progress false and requested_action None, unless one of its calls
\* fails.
C28_LaunchLiveness ==
  /\ (FlowsAt(LaunchCommittedPcs \ {"l_reset"}) > 0)
       ~> (LaunchCallFailed \/ (last.at = "l_start" /\ last.call.op = "start_vm"))
  /\ (FlowsAt(LaunchCommittedPcs) > 0)
       ~> \/ LaunchCallFailed
          \/ /\ last.at = "l_reset"
             /\ last.ret = HttpOk(LaunchResponse_started)
             /\ launch_state = LaunchState_default
             /\ FlowsAt(LaunchCommittedPcs) = 0

\* C28: a flow that displaced the easy-kill VM has had its start_vm accepted
\* and is about to return Started.
C28_Witness ==
  /\ \E t \in Live :
       t.pc = "l_reset" /\ t.auto_selected /\ t.outcome = <<OkOutcome>>
  /\ status[100] = "Stopped"
  /\ status[200] = "Running"

\* The actions of C29's requests: none, or one that acts on a running VM.
DisplacingActions == {None, "Shutdown", "Hibernate", "Terminate"}

\* A launch handler that committed with no running VM in its listing.
NothingToDisplace(t) == t.running_vm = NoVm /\ t.action \in DisplacingActions

\* The steps of such a launch up to start_vm: the listing answered with no
\* Running VM makes it commit with the action as requested; the commit sets
\* in_progress and goes to start_vm with no action and no status read; its
\* one call is start_vm(target).
C29_UpToStart ==
  \A t \in Live :
    /\ (/\ Took(t, "l_list")
        /\ t.action \in DisplacingActions
        /\ last'.ret.err = << >>
        /\ FindRunning(list_vms) = NoVm)
         => /\ last'.ret = NoResult
            /\ Becomes(t, [t EXCEPT !.pc = "l_commit"])
            /\ NothingToDisplace(t)
    /\ (Took(t, "l_commit") /\ NothingToDisplace(t))
         => /\ launch_state' =
                 [in_progress |-> TRUE, requested_action |-> t.action]
            /\ Becomes(t, [t EXCEPT !.pc = "l_start"])
            /\ UNCHANGED <<status, pending>>
    /\ (Took(t, "l_start") /\ NothingToDisplace(t))
         => last'.call = Call("start_vm", t.target_vmid)
    /\ (t.pc \in LaunchDrainPcs /\ t.action \in DisplacingActions)
         => t.running_vm # NoVm

\* C29, as stated: an idle coordinator whose listing shows no Running VM
\* commits a launch with an absent, Shutdown, Hibernate or Terminate action,
\* sends start_vm(target) and nothing else, and returns Started.
C29_AsStated ==
  [][/\ C29_UpToStart
     /\ \A t \in Live :
          (Took(t, "l_start") /\ NothingToDisplace(t))
            => /\ Becomes(t, Finishing(t, "l_reset", OkOutcome))
               /\ status'[t.target_vmid] = "Running"]_vars

\* C29, amended: an idle coordinator whose listing is answered and shows no
\* Running VM commits a launch with an absent, Shutdown, Hibernate or
\* Terminate action and sends start_vm(target) as its only hypervisor call
\* after the listing: no shutdown, hibernate or stop call and no status read.
\* It returns Started when start_vm succeeded, the target then Running, and
\* the hypervisor's error with HTTP 502 when start_vm failed.
C29_StartOnly ==
  [][/\ C29_UpToStart
     /\ \A t \in Live :
          /\ (Took(t, "l_start") /\ NothingToDisplace(t))
               => \/ /\ Becomes(t, Finishing(t, "l_reset", OkOutcome))
                     /\ status'[t.target_vmid] = "Running"
                  \/ /\ \E e \in VmErrors :
                          Becomes(t, Finishing(t, "l_reset", Err_Proxmox(e)))
                     /\ UNCHANGED <<status, pending>>
          /\ (Took(t, "l_reset") /\ ~t.auto_selected)
               => /\ t.outcome = <<OkOutcome>>
                       <=> last'.ret = HttpOk(LaunchResponse_started)
                  /\ t.outcome # <<OkOutcome>>
                       => /\ last'.ret.http = BAD_GATEWAY
                          /\ last'.ret.err = t.outcome
                  /\ launch_state' = LaunchState_default]_vars

\* C29: a launch asking for Shutdown found no VM running, has committed and
\* is at its start_vm, every VM stopped and none told to stop.
C29_Witness ==
  /\ \E t \in Live :
       t.pc = "l_start" /\ t.running_vm = NoVm /\ t.action = "Shutdown"
  /\ launch_state = [in_progress |-> TRUE, requested_action |-> "Shutdown"]
  /\ last.at = "l_commit"
  /\ \A v \in DOMAIN status : status[v] = "Stopped" /\ ~pending[v]

\* The endpoint of a request: the last piece of its path.
Endpoint(request) == request.path[Len(request.path)]

\* The values a form carries under a key.
FormValues(form, key) ==
  {form[i][2] : i \in {j \in 1..Len(form) : form[j][1] = key}}

\* The requests of a whole fork_vm: next-vmid, create-snapshot and clone, the
\* last two each after the lookup of the VM's node.
ForkSequence ==
  <<"/cluster/nextid", "/cluster/resources?type=vm", "/snapshot",
    "/cluster/resources?type=vm", "/clone">>

\* C30: the requests of a fork_vm are, in this order, next-vmid,
\* create-snapshot (node lookup, then the snapshot POST) and clone (node
\* lookup, then the clone POST), and each is sent only if everything before
\* it succeeded: no snapshot after a next-vmid that failed or did not parse,
\* no clone after a snapshot that failed.  The clone POST names the snapshot
\* the snapshot POST created, the id next-vmid gave and the name asked for.
\* fork_vm returns that id, and only once the clone POST succeeded; otherwise
\* it returns the error of the call that failed.
C30_ForkVmOrder ==
  \A t \in Live :
    LET n == Len(t.sent)
        call(i) == t.sent[i]
        newid == next_vmid(call(1).answer.ok[1])
    IN  /\ n <= Len(ForkSequence)
        /\ \A i \in 1..n : Endpoint(call(i).request) = ForkSequence[i]
        /\ \A i \in 1..(n - 1) : call(i).answer.err = << >>
        /\ n >= 2 => newid.err = << >>
        /\ \A i \in {2, 4} :
             n > i => node_for_vmid(call(i).answer.ok[1], t.vmid).err = << >>
        /\ n >= 3 =>
             /\ call(3).request.method = "POST"
             /\ FormValues(call(3).request.form, "snapname") = {t.snapshot}
        /\ n = 5 =>
             /\ call(5).request.method = "POST"
             /\ FormValues(call(5).request.form, "snapname")
                  = FormValues(call(3).request.form, "snapname")
             /\ FormValues(call(5).request.form, "newid")
                  = {ToString(newid.ok[1])}
             /\ FormValues(call(5).request.form, "name") = {t.name}
        /\ t.pc = "c_done" <=> t.ret # << >>
        /\ (t.ret # << >> /\ t.ret[1].err = << >>)
             => /\ n = 5
                /\ call(5).answer.err = << >>
                /\ t.ret[1] = newid
        /\ (t.ret # << >> /\ t.ret[1].err # << >>)
             => /\ n >= 1
                /\ \/ call(n).answer = t.ret[1]
                   \/ /\ n = 1
                      /\ call(1).answer.err = << >>
                      /\ t.ret[1] = newid
                   \/ /\ n \in {2, 4}
                      /\ call(n).answer.err = << >>
                      /\ t.ret[1] = node_for_vmid(call(n).answer.ok[1], t.vmid)

\* C30: a fork_vm has returned the id that /cluster/nextid spelled "+7",
\* after its five requests were answered.
C30_Witness ==
  \E t \in Live :
    /\ t.pc = "c_done"
    /\ t.ret = <<Ok(7)>>
    /\ Len(t.sent) = 5
    /\ t.sent[1].answer = Ok(<<"+", "7">>)
    /\ Endpoint(t.sent[5].request) = "/clone"

\* The positions of the watchdog task.
FallbackPcs == {"f_idle", "f_list1", "f_recheck", "f_start"}

\* C31: a step of the watchdog leaves LaunchState and ShutdownState as they
\* are and touches no handler of a coordinator; it is never held up by a
\* coordinator (its next step can be taken whatever the coordinators' state
\* is); a launch is admitted, and its flow goes on, whatever the watchdog is
\* doing.
C31_WatchdogApart ==
  /\ [][last'.at \in FallbackPcs
          => /\ UNCHANGED <<launch_state, shutdown_state>>
             /\ \E t \in Live :
                  /\ t.pc = last'.at
                  /\ \E u \in BagToSet(tasks') :
                       /\ u.pc \in FallbackPcs
                       /\ tasks' = (tasks (-) SetToBag({t})) (+) SetToBag({u})]_vars
  /\ [](\A t \in Live :
          /\ t.pc = "f_idle" => ENABLED fallback_tick(t)
          /\ t.pc = "f_list1" => ENABLED fallback_first(t)
          /\ t.pc = "f_recheck" => ENABLED fallback_second(t)
          /\ t.pc = "f_start" => ENABLED fallback_start(t))

\* C31: the watchdog has just sent start_vm to the fallback VM 200 while a
\* launch flow for VM 100 is committed and has started its target: both VMs
\* run.
C31_Witness ==
  /\ last.at = "f_start"
  /\ last.call = Call("start_vm", 200)
  /\ launch_state.in_progress
  /\ \E t \in Live : t.pc = "l_reset" /\ t.outcome = <<OkOutcome>>
  /\ status[100] = "Running"
  /\ status[200] = "Running"

\* A listing of a decision procedure has just failed.
ListingFailed(at) ==
  /\ last'.at = at
  /\ last'.ret.err # << >>
  /\ last'.ret.err[1].kind = "Proxmox"

\* C32: a launch, or a shutdown, whose listing fails returns the Proxmox
\* error (502) there and then; the step writes neither coordinator's state
\* and sends nothing to the hypervisor but the listing, and the invocation,
\* which never committed, is over: a coordinator that was idle is idle after.
C32_ListingFailure ==
  [][\A at \in {"l_list", "s_list"} :
       ListingFailed(at)
         => /\ \E t \in Live :
                 /\ Took(t, at)
                 /\ Returned(t)
                 /\ t.running_vm = NoVm
                 /\ t.current_action = None
            /\ last'.call = Call("list_vms", 0)
            /\ last'.ret.http = BAD_GATEWAY
            /\ ~last'.poweroff
            /\ UNCHANGED <<launch_state, shutdown_state, status, pending>>
            /\ at = "l_list" /\ FlowsAt(LaunchCommittedPcs) = 0
                 => launch_state' = LaunchState_default
            /\ at = "s_list" /\ FlowsAt(ShutdownCommittedPcs) = 0
                 => shutdown_state' = ShutdownState_default]_vars

\* C32: the listing of a launch has just failed; the request is answered
\* 502, nothing is in flight and the coordinator is idle.
C32_Witness ==
  /\ last.at = "l_list"
  /\ last.ret.http = BAD_GATEWAY
  /\ last.ret.err = <<Err_Proxmox("Api")>>
  /\ tasks = EmptyBag
  /\ launch_state = LaunchState_default

\* The calls of a launch flow on the VM it displaces.
DrainCallPcs == {"l_act", "l_poll", "l_escalate"}

\* C33: each call of a launch flow on the displaced VM (the first action, a
\* status read, the escalation's terminate_vm) either is accepted, the flow
\* going on, or fails, and then the flow goes straight to the reset with the
\* Proxmox error, the VMs as they were.  The reset of a failed flow sends
\* nothing and returns that error with 502; start_vm is sent only by a flow
\* at its start_vm step, which no failed flow reaches.
C33_FailureStopsFlow ==
  [][/\ \A t \in Live :
          /\ (t.pc \in DrainCallPcs /\ Took(t, t.pc))
               => LET vmid == t.running_vm[1].vmid
                  IN  \/ /\ t.pc = "l_poll"
                         /\ last'.call = Call("vm_status", vmid)
                         /\ \E u \in BagToSet(tasks') :
                              /\ Appears(u)
                              /\ u.pc \in {"l_start", "l_reread"}
                              /\ u.outcome = << >>
                         /\ UNCHANGED <<status, pending>>
                      \/ /\ t.pc # "l_poll"
                         /\ last'.call.op \in Mutations \ {"start_vm"}
                         /\ last'.call.vmid = vmid
                         /\ \E u \in BagToSet(tasks') :
                              /\ Appears(u)
                              /\ u.pc = "l_poll"
                              /\ u.outcome = << >>
                         /\ pending' = [pending EXCEPT
                                          ![vmid] = status[vmid] # "Stopped"]
                         /\ UNCHANGED status
                      \/ /\ \E e \in VmErrors :
                              Becomes(t, Finishing(t, "l_reset", Err_Proxmox(e)))
                         /\ last'.call.op # "start_vm"
                         /\ last'.call.vmid = vmid
                         /\ UNCHANGED <<status, pending, launch_state>>
          /\ (Took(t, "l_reset") /\ t.outcome[1].kind = "Proxmox")
               => /\ Returned(t)
                  /\ last'.call = NoCall
                  /\ last'.ret = LaunchHttpErr(t.outcome[1])
                  /\ last'.ret.http = BAD_GATEWAY
                  /\ UNCHANGED <<status, pending>>
     /\ last'.call.op = "start_vm"
          => \E t \in Live : Took(t, "l_start") /\ t.outcome = << >>]_vars

\* C33: a status read of a launch flow has just failed after the displaced
\* VM 100 accepted its stop action; the flow is at its reset with the error,
\* the target not started.
C33_Witness ==
  /\ last.at = "l_poll"
  /\ last.call = Call("vm_status", 100)
  /\ \E t \in Live : t.pc = "l_reset" /\ t.outcome = <<Err_Proxmox("Api")>>
  /\ pending[100]
  /\ status[200] = "Stopped"
  /\ launch_state.in_progress

\* The lifecycle commands a launch flow sends to the VM it displaces.
StopCommands == {"shutdown_vm", "hibernate_vm", "terminate_vm"}

\* C34: a launch flow sends the displaced VM its first action once, on
\* entering run_flow from the commit, and terminate_vm as an escalation only
\* from a read of requested_action = Terminate made while its current action
\* is not Terminate; the escalation makes the current action Terminate, and
\* it stays so, hence at most one escalation and two commands in all.  A
\* Terminate request arriving while the flow is in progress returns Updated
\* and is no hypervisor call; with the flow's current action Terminate it
\* changes nothing of the flow.
C34_AtMostTwoCommands ==
  [][/\ \A u \in BagToSet(tasks') :
          /\ (Appears(u) /\ u.pc = "l_act")
               => /\ last'.at = "l_commit"
                  /\ last'.call = NoCall
          /\ (Appears(u) /\ u.pc = "l_escalate")
               => /\ last'.at = "l_reread"
                  /\ launch_state.requested_action = "Terminate"
                  /\ \E t \in Live :
                       /\ Took(t, "l_reread")
                       /\ t.current_action # "Terminate"
                       /\ u = [t EXCEPT !.pc = "l_escalate", !.owed = FALSE]
     /\ \A t \in Live :
          /\ (Took(t, "l_act") /\ last'.call # NoCall)
               => last'.call = Call(ActionCall(t.current_action),
                                    t.running_vm[1].vmid)
          /\ Took(t, "l_escalate")
               => /\ last'.call = Call("terminate_vm", t.running_vm[1].vmid)
                  /\ t.current_action # "Terminate"
                  /\ \/ Becomes(t, [t EXCEPT !.pc = "l_poll",
                                              !.current_action = "Terminate"])
                     \/ \E e \in VmErrors :
                          Becomes(t, Finishing(t, "l_reset", Err_Proxmox(e)))
          /\ (t.pc \in LaunchDrainPcs /\ t.current_action = "Terminate"
                /\ Took(t, t.pc))
               => \E u \in BagToSet(tasks') :
                    /\ Appears(u)
                    /\ \/ u.pc \in {"l_start", "l_reset"}
                       \/ /\ u.pc \in {"l_poll", "l_reread"}
                          /\ u.current_action = "Terminate"
     /\ last'.call.op \in StopCommands /\ last'.at \notin {"s_act"}
          => last'.at \in {"l_act", "l_escalate"}
     /\ (last'.at = "l_entry" /\ launch_state.in_progress)
          => /\ last'.call = NoCall
             /\ UNCHANGED <<status, pending>>
             /\ last'.ret = HttpOk(LaunchResponse_updated)
                  => /\ launch_state'.requested_action = "Terminate"
                     /\ \A t \in Live :
                          (t.pc \in LaunchCommittedPcs
                             /\ t.current_action = "Terminate")
                            => CopiesIn(t, tasks') = CopiesIn(t, tasks)]_vars

\* C34: a flow that began with Shutdown has escalated: terminate_vm was just
\* sent to the displaced VM 100, the flow's current action is Terminate.
C34_Witness ==
  /\ last.at = "l_escalate"
  /\ last.call = Call("terminate_vm", 100)
  /\ \E t \in Live :
       /\ t.pc = "l_poll"
       /\ t.action = "Shutdown"
       /\ t.current_action = "Terminate"
  /\ launch_state = [in_progress |-> TRUE, requested_action |-> "Terminate"]

\* C35: a launch(X, Terminate) that arrives while a launch flow is in
\* progress returns Updated, and the step is the same for every X: it admits
\* no handler, sends nothing, and every handler in flight keeps its target
\* and the VM it drains.  A flow keeps both from its commit on and sends
\* start_vm to its own target only.
C35_TargetIgnored ==
  [][/\ (/\ last'.at = "l_entry"
         /\ launch_state.in_progress
         /\ last'.ret = HttpOk(LaunchResponse_updated))
          => /\ \A X \in VmIds : launch_entry(X, "Terminate")
             /\ last'.call = NoCall
             /\ UNCHANGED <<status, pending>>
             /\ BagCardinality(tasks') = BagCardinality(tasks)
             /\ \A u \in BagToSet(tasks') :
                  \E t \in Live :
                    /\ u \in {t, [t EXCEPT !.owed = TRUE]}
                    /\ CopiesIn(u, tasks') >= CopiesIn(t, tasks)
     /\ \A t \in Live :
          /\ (t.pc \in (LaunchDrainPcs \cup {"l_commit"}) /\ Took(t, t.pc))
               => \E u \in BagToSet(tasks') :
                    /\ Appears(u)
                    /\ \/ u.pc = "l_reset"
                       \/ /\ u.target_vmid = t.target_vmid
                          /\ u.running_vm = t.running_vm
          /\ Took(t, "l_start")
               => last'.call = Call("start_vm", t.target_vmid)
     /\ last'.call.op = "start_vm" => last'.at = "l_start"]_vars

\* C35: launch(100, Terminate) has just been answered Updated while the flow
\* that starts VM 200 drains VM 100; VM 100 is the VM being drained, and the
\* flow's target is still 200.
C35_Witness ==
  /\ last.at = "l_entry"
  /\ last.ret = HttpOk(LaunchResponse_updated)
  /\ launch_state = [in_progress |-> TRUE, requested_action |-> "Terminate"]
  /\ \E t \in Live :
       /\ t.pc \in LaunchDrainPcs
       /\ t.target_vmid = 200
       /\ t.running_vm # NoVm
       /\ t.running_vm[1].vmid = 100
       /\ t.owed
  /\ status[200] = "Stopped"

\* The actions that act on a running VM.
StopActions == {"Shutdown", "Hibernate", "Terminate"}

\* The positions of a handler between its decision and its return.
DecidedPcs ==
  LaunchCommittedPcs \cup ShutdownCommittedPcs \cup {"l_commit", "s_commit"}

\* C36: a launch or shutdown handler that decided to go on with a running VM
\* to displace carries one of Shutdown, Hibernate, Terminate as its action;
\* in run_flow its current action is that action (or Terminate after an
\* escalation), never the default taken for an absent action and never
\* Cancel; each execute_action of a flow is a call to the hypervisor.
C36_ActionChosen ==
  /\ [](\A t \in Live :
          (t.pc \in DecidedPcs /\ t.running_vm # NoVm)
            => /\ t.action \in StopActions
               /\ t.pc \notin {"l_commit", "s_commit"}
                    => /\ t.current_action \in {t.action, "Terminate"}
                       /\ t.pc \in ShutdownCommittedPcs
                            => t.current_action = t.action
                       /\ ActionCall(t.current_action) # "none")
  /\ [][last'.at \in {"l_act", "l_escalate", "s_act"}
          => last'.call.op \in StopCommands]_vars

\* C36: a launch flow asked to hibernate the running VM 100 has committed
\* and is at its first action.
C36_Witness ==
  /\ \E t \in Live :
       /\ t.pc = "l_act"
       /\ t.running_vm # NoVm
       /\ t.running_vm[1].vmid = 100
       /\ t.action = "Hibernate"
       /\ t.current_action = "Hibernate"
  /\ launch_state = [in_progress |-> TRUE, requested_action |-> "Hibernate"]

\* The steps of the launch handler and of the host-shutdown handler.
LaunchPcs ==
  {"l_entry", "l_list", "l_commit", "l_act", "l_poll", "l_reread",
   "l_escalate", "l_start", "l_reset"}

ShutdownPcs ==
  {"s_entry", "s_list", "s_commit", "s_act", "s_poll", "s_final", "s_reset"}

\* C37: a step of launch leaves ShutdownState as it is and a step of shutdown
\* leaves LaunchState as it is; a host shutdown that arrives while no
\* shutdown is in progress is admitted to its listing whether or not a launch
\* is in progress, and a launch that arrives while no launch is in progress
\* is admitted whether or not a shutdown is; a request is refused with
\* InProgress only by its own coordinator's flag.
C37_Independent ==
  [][/\ last'.at \in LaunchPcs => UNCHANGED shutdown_state
     /\ last'.at \in ShutdownPcs => UNCHANGED launch_state
     /\ (last'.at = "s_entry" /\ ~shutdown_state.in_progress)
          => /\ last'.ret = NoResult
             /\ \E u \in BagToSet(tasks') : Appears(u) /\ u.pc = "s_list"
     /\ (last'.at = "l_entry" /\ ~launch_state.in_progress)
          => /\ last'.ret = NoResult
             /\ \E u \in BagToSet(tasks') : Appears(u) /\ u.pc = "l_list"
     /\ (last'.at = "s_entry" /\ last'.ret.err = <<Err_InProgress>>)
          => shutdown_state.in_progress
     /\ (last'.at = "l_entry" /\ last'.ret.err = <<Err_InProgress>>)
          => launch_state.in_progress]_vars

\* C37: a host shutdown has just committed while a launch flow is in
\* progress: both coordinators are in progress, each with its flow.
C37_Witness ==
  /\ last.at = "s_commit"
  /\ launch_state.in_progress
  /\ shutdown_state.in_progress
  /\ FlowsAt(LaunchCommittedPcs \ {"l_reset"}) = 1
  /\ FlowsAt(ShutdownCommittedPcs) = 1

\* The bytes held by a sequence of entries.
RECURSIVE total_len(_)
total_len(entries) ==
  IF entries = << >> THEN 0 ELSE Len(Head(entries)) + total_len(Tail(entries))

\* C38: in every state of the log buffer pending_bytes is the sum of the
\* lengths of the queued entries and is at most max_pending_bytes; a log()
\* whose normalised line would take pending_bytes over the limit leaves the
\* queue and pending_bytes as they are, any other appends the line and adds
\* its length.
C38_BufferInvariant ==
  /\ [](\A t \in Live :
          /\ t.pending_bytes = total_len(t.entries)
          /\ t.pending_bytes <= t.max_pending_bytes)
  /\ [][last'.at = "r_log"
          => \E t \in Live, data \in DataLines :
               LET line == normalize_line(data)
               IN  IF t.pending_bytes + Len(line) > t.max_pending_bytes
                   THEN tasks' = tasks
                   ELSE Becomes(t, [t EXCEPT
                                      !.entries = Append(@, line),
                                      !.pending_bytes = @ + Len(line)])]_vars

\* C38: a buffer of 4 bytes is full with one entry queued while an earlier
\* batch is being sent: enqueues and a take have interleaved, and any line
\* logged now is dropped.
C38_Witness ==
  /\ last.at = "r_log"
  /\ \E t \in Live :
       /\ t.pc = "u_send"
       /\ t.batch # << >>
       /\ t.max_pending_bytes = 4
       /\ t.pending_bytes = 4
       /\ Len(t.entries) = 1

\* C39: take_next_batch splits the queue into the batch and what stays
\* queued, in order; the batch is not empty unless the queue was; it holds at
\* most max_upload_bytes, or is a single entry; pending_bytes goes down by
\* the bytes taken.  The upload, answered or failed, leaves the queue as it
\* is and the batch is gone.
C39_TakeNextBatch ==
  [][/\ last'.at = "u_sleep"
          => \E t \in Live, u \in BagToSet(tasks') :
               /\ tasks = SetToBag({t})
               /\ tasks' = SetToBag({u})
               /\ t.pc = "u_sleep"
               /\ t.entries = u.batch \o u.entries
               /\ t.entries # << >> => u.batch # << >>
               /\ total_len(u.batch) <= t.max_upload_bytes \/ Len(u.batch) = 1
               /\ u.pending_bytes = t.pending_bytes - total_len(u.batch)
               /\ u.pc = IF u.batch = << >> THEN "u_sleep" ELSE "u_send"
     /\ last'.at = "u_send"
          => \E t \in Live :
               /\ t.pc = "u_send"
               /\ last'.ret \in UploadResults
               /\ Becomes(t, [t EXCEPT !.pc = "u_sleep", !.batch = << >>])]_vars

\* C39: a batch of two entries has just been taken from a queue of three;
\* the third stays queued.
C39_Witness ==
  /\ last.at = "u_sleep"
  /\ \E t \in Live :
       /\ t.pc = "u_send"
       /\ Len(t.batch) = 2
       /\ Len(t.entries) = 1
       /\ total_len(t.batch) <= t.max_upload_bytes

====
